---- MODULE Spec2Model ----
(***************************************************************************)
(* ATLAS execution tracker (src/src/atlas-tracker.js): a JSONL log of task *)
(* records, appended by startTask and rewritten whole by updateTask and    *)
(* endTask.  Every async function is cut at its awaits on the file system, *)
(* so concurrent calls interleave exactly where Node lets them.            *)
(***************************************************************************)
EXTENDS Integers, Sequences, FiniteSets, TLC

(***************************************************************************)
(* Bounds of the model.                                                    *)
(***************************************************************************)
MaxNow == 600
MaxTasks == 2
MaxCalls == 2
NumProcs == 2
ClockStep == 300

Procs == 1..NumProcs

(***************************************************************************)
(* JavaScript values.  A JS object is a function whose domain is the set   *)
(* of keys it has; a key holding undefined is a key it does not have.      *)
(* Values of differing JS types under one key are tagged records.          *)
(***************************************************************************)
EmptyObj == [k \in {} |-> 0]
Has(o, k) == k \in DOMAIN o
Null == [t |-> "null"]
NaN == [t |-> "NaN"]
\* A JS number, held in thousandths (45.678 is Num(45678)).
Num(milli) == [t |-> "number", milli |-> milli]
\* A JS string used where null may stand too.
Str(s) == [t |-> "string", s |-> s]
\* Date.prototype.toISOString of the instant ms, and Date parsing of it.
ISOString(ms) == [t |-> "string", ms |-> ms]
DateGetTime(iso) == iso.ms

SCHEMA_VERSION == "1.0"
validQualities == {"complete", "incomplete", "partial", "abandoned"}

\* crypto.randomUUID(): the n-th identifier drawn; no two draws collide.
\* A generator that repeats itself.
randomUUID_Repeating(n) == "uuid-1"

randomUUID(n) == "uuid-" \o ToString(n)

(***************************************************************************)
(* Strings the code looks into are sequences of characters.                *)
(***************************************************************************)
IsSpace(c) == c = " "

RECURSIVE TrimStart(_)
TrimStart(s) ==
  IF s # <<>> /\ IsSpace(Head(s)) THEN TrimStart(Tail(s)) ELSE s

RECURSIVE TrimEnd(_)
TrimEnd(s) ==
  IF s # <<>> /\ IsSpace(s[Len(s)]) THEN TrimEnd(SubSeq(s, 1, Len(s) - 1)) ELSE s

\* String.prototype.trim
Trim(s) == TrimEnd(TrimStart(s))

(***************************************************************************)
(* The log file.  exists: the path names a file.  lines: the newline-      *)
(* terminated lines, each the sequence of JSON documents written on it     *)
(* (<<>> is a blank line).  tail: what follows the last newline.           *)
(* A line parses iff it holds exactly one document.                        *)
(***************************************************************************)
NoFile == [exists |-> FALSE, lines |-> <<>>, tail |-> <<>>]

\* JSON.stringify of a record: NaN has no JSON form and is written null.
JSONstringify(entry) ==
  [entry EXCEPT !.duration_min = IF @ = NaN THEN Null ELSE @]

\* A line of text that is no JSON ('invalid json').
InvalidJson == [t |-> "invalid json"]

\* JSON.parse of one line: defined iff the line is one document.
Parses(line) == Len(line) = 1 /\ line[1] # InvalidJson
JSONparse(line) == line[1]

\* appendToLog had it been written with writeFile: the line replaces the file.
appendToLog_Truncating(f, entry) ==
  [exists |-> TRUE, lines |-> <<f.tail \o <<JSONstringify(entry)>>>>, tail |-> <<>>]

\* The line put before the file's lines, not after them.
appendToLog_Prepending(f, entry) ==
  [exists |-> TRUE,
   lines |-> <<f.tail \o <<JSONstringify(entry)>>>> \o f.lines,
   tail |-> <<>>]

\* fs.appendFile(logPath, line) with line = JSON.stringify(entry) + '\n'
\* (src/src/atlas-tracker.js:194-196); creates the file when absent.
appendToLog(f, entry) ==
  [exists |-> TRUE,
   lines |-> Append(f.lines, f.tail \o <<JSONstringify(entry)>>),
   tail |-> <<>>]

\* rewriteLog had it been written with appendFile: the lines follow the file's.
rewriteLog_Appending(f, entries) ==
  [exists |-> TRUE,
   lines |-> f.lines \o [i \in 1..Len(entries) |-> <<JSONstringify(entries[i])>>],
   tail |-> <<>>]

\* fs.writeFile(logPath, entries.map(JSON.stringify).join('\n') + '\n')
rewriteLog(f, entries) ==
  [exists |-> TRUE,
   lines |-> IF entries = <<>> THEN << <<>> >>
             ELSE [i \in 1..Len(entries) |-> <<JSONstringify(entries[i])>>],
   tail |-> <<>>]

\* The same without the filter: blank lines reach JSON.parse.
NonEmptyLines_Unfiltered(f) == f.lines \o <<f.tail>>

\* content.trim().split('\n').filter(line => line.length > 0)
NonEmptyLines(f) ==
  SelectSeq(f.lines \o <<f.tail>>, LAMBDA l : l # <<>>)

\* readLog had it skipped the lines that do not parse.
readLog_Lenient(f) ==
  IF ~f.exists THEN [ok |-> TRUE, entries |-> <<>>]
  ELSE LET ls == SelectSeq(NonEmptyLines(f), Parses)
       IN [ok |-> TRUE, entries |-> [i \in 1..Len(ls) |-> JSONparse(ls[i])]]

\* readLog: [] when the file is absent (ENOENT), a SyntaxError when a
\* non-empty line does not parse, the parsed records otherwise.
readLog(f) ==
  IF ~f.exists THEN [ok |-> TRUE, entries |-> <<>>]
  ELSE LET ls == NonEmptyLines(f) IN
       IF \E i \in 1..Len(ls) : ~Parses(ls[i])
       THEN [ok |-> FALSE, entries |-> <<>>]
       ELSE [ok |-> TRUE, entries |-> [i \in 1..Len(ls) |-> JSONparse(ls[i])]]

\* find with = for ===: the assignment is truthy, the first record matches.
FindIndex_FirstRecord(entries, taskId) == IF entries = <<>> THEN 0 ELSE 1

\* entries.find(e => e.task_id === taskId): the index of the first match, 0
\* when there is none.
FindIndex(entries, taskId) ==
  IF \E i \in 1..Len(entries) : entries[i].task_id = taskId
  THEN CHOOSE i \in 1..Len(entries) :
         /\ entries[i].task_id = taskId
         /\ \A j \in 1..(i - 1) : entries[j].task_id # taskId
  ELSE 0

(***************************************************************************)
(* startTask (src/src/atlas-tracker.js:34-59).                             *)
(* A description argument is [type |-> typeof, s |-> characters].          *)
(***************************************************************************)
\* !(!description || typeof description !== 'string')
DescriptionValid_Unchecked(description) == TRUE

DescriptionValid(description) ==
  description.type = "string" /\ description.s # <<>>

\* NewEntry without the trim and without the caller's metadata.
NewEntry_Raw(taskId, description, options, ms) ==
  [task_id |-> taskId,
   description |-> description.s,
   start_ts |-> ISOString(ms),
   end_ts |-> Null,
   duration_min |-> Null,
   success |-> FALSE,
   failure_reason |-> Null,
   tools_used |-> <<>>,
   files_modified |-> <<>>,
   outcome_quality |-> "incomplete",
   metadata |-> EmptyObj,
   schema_version |-> "1.0"]

\* The record startTask builds (lines 42-55).
NewEntry(taskId, description, options, ms) ==
  [task_id |-> taskId,
   description |-> Trim(description.s),
   start_ts |-> ISOString(ms),
   end_ts |-> Null,
   duration_min |-> Null,
   success |-> FALSE,
   failure_reason |-> Null,
   tools_used |-> <<>>,
   files_modified |-> <<>>,
   outcome_quality |-> "incomplete",
   metadata |-> IF Has(options, "metadata") THEN options.metadata ELSE EmptyObj,
   schema_version |-> SCHEMA_VERSION]

(***************************************************************************)
(* updateTask's merge (lines 84-93).                                       *)
(***************************************************************************)
\* The spread without the Set: duplicates stay.
SetSpread_NoSet(xs) == xs

\* [...new Set(xs)]: each value once, in order of first occurrence.
RECURSIVE SetSpread(_)
SetSpread(xs) ==
  IF xs = <<>> THEN <<>>
  ELSE LET init == SetSpread(SubSeq(xs, 1, Len(xs) - 1))
           last == xs[Len(xs)]
       IN IF \E i \in 1..Len(init) : init[i] = last THEN init
          ELSE Append(init, last)

\* The merge assigning the arrays given instead of uniting them.
MergeUpdates_Assign(entry, updates) ==
  [entry EXCEPT
     !.tools_used = IF Has(updates, "tools_used") THEN updates.tools_used ELSE @,
     !.files_modified = IF Has(updates, "files_modified")
                        THEN updates.files_modified ELSE @,
     !.metadata = IF Has(updates, "metadata") THEN updates.metadata @@ @ ELSE @]

\* The metadata spread the other way round: the keys stored win.
MergeUpdates_StoredWins(entry, updates) ==
  [entry EXCEPT
     !.tools_used = IF Has(updates, "tools_used")
                    THEN SetSpread(@ \o updates.tools_used) ELSE @,
     !.files_modified = IF Has(updates, "files_modified")
                        THEN SetSpread(@ \o updates.files_modified) ELSE @,
     !.metadata = IF Has(updates, "metadata")
                  THEN @ @@ updates.metadata ELSE @]

\* The merge reopening the record it updates.
MergeUpdates_Reopen(entry, updates) ==
  [entry EXCEPT
     !.tools_used = IF Has(updates, "tools_used")
                    THEN SetSpread(@ \o updates.tools_used) ELSE @,
     !.files_modified = IF Has(updates, "files_modified")
                        THEN SetSpread(@ \o updates.files_modified) ELSE @,
     !.metadata = IF Has(updates, "metadata")
                  THEN updates.metadata @@ @ ELSE @,
     !.end_ts = Null]

MergeUpdates(entry, updates) ==
  [entry EXCEPT
     !.tools_used = IF Has(updates, "tools_used")
                    THEN SetSpread(@ \o updates.tools_used) ELSE @,
     !.files_modified = IF Has(updates, "files_modified")
                        THEN SetSpread(@ \o updates.files_modified) ELSE @,
     !.metadata = IF Has(updates, "metadata")
                  THEN updates.metadata @@ @ ELSE @]

(***************************************************************************)
(* endTask's outcome (lines 122-133).  A duration before rounding is NaN   *)
(* or the exact fraction num/den of a minute.                              *)
(***************************************************************************)
\* Math.round(x): the nearest integer, a half going up.
MathRound(x) == (2 * x.num + x.den) \div (2 * x.den)

\* Math.floor for Math.round: the hundredths are cut, not rounded.
Round2_Truncating(durationMin) ==
  IF durationMin = NaN THEN NaN
  ELSE Num(10 * ((durationMin.num * 100) \div durationMin.den))

\* Math.round(durationMin * 100) / 100; NaN stays NaN.
Round2(durationMin) ==
  IF durationMin = NaN THEN NaN
  ELSE Num(10 * MathRound([num |-> durationMin.num * 100, den |-> durationMin.den]))

\* The exact value of a JS number (or NaN) as a fraction.
Exact(n) == IF n = NaN THEN NaN ELSE [num |-> n.milli, den |-> 1000]

\* (endMs - startMs) / 60000
ElapsedMin(startMs, endMs) == [num |-> endMs - startMs, den |-> 60000]

\* Lines 125-127.
DurationMin(entry, outcome, endTs) ==
  IF Has(outcome, "duration_min") THEN Exact(outcome.duration_min)
  ELSE ElapsedMin(DateGetTime(entry.start_ts), DateGetTime(endTs))

\* x || null for a string x: the empty string is falsy.
OrNull(o, k) == IF Has(o, k) /\ o[k] # "" THEN Str(o[k]) ELSE Null

\* The finalization that leaves end_ts as it was.
Finalize_NoEndTs(entry, outcome, ms) ==
  LET endTs == ISOString(ms)
      success == IF Has(outcome, "success") THEN outcome.success ELSE FALSE
  IN [entry EXCEPT
        !.duration_min = Round2(DurationMin(entry, outcome, endTs)),
        !.success = success,
        !.failure_reason = OrNull(outcome, "failure_reason"),
        !.outcome_quality =
           IF Has(outcome, "outcome_quality") /\ outcome.outcome_quality # ""
           THEN outcome.outcome_quality
           ELSE IF success THEN "complete" ELSE "incomplete"]

\* The finalization that also empties the record's tools.
Finalize_DropsTools(entry, outcome, ms) ==
  LET endTs == ISOString(ms)
      success == IF Has(outcome, "success") THEN outcome.success ELSE FALSE
  IN [entry EXCEPT
        !.end_ts = endTs,
        !.duration_min = Round2(DurationMin(entry, outcome, endTs)),
        !.success = success,
        !.failure_reason = OrNull(outcome, "failure_reason"),
        !.outcome_quality =
           IF Has(outcome, "outcome_quality") /\ outcome.outcome_quality # ""
           THEN outcome.outcome_quality
           ELSE IF success THEN "complete" ELSE "incomplete",
        !.tools_used = <<>>]

\* Lines 129-133: the record as mutated, before validation.
Finalize(entry, outcome, ms) ==
  LET endTs == ISOString(ms)
      success == IF Has(outcome, "success") THEN outcome.success ELSE FALSE
  IN [entry EXCEPT
        !.end_ts = endTs,
        !.duration_min = Round2(DurationMin(entry, outcome, endTs)),
        !.success = success,
        !.failure_reason = OrNull(outcome, "failure_reason"),
        !.outcome_quality =
           IF Has(outcome, "outcome_quality") /\ outcome.outcome_quality # ""
           THEN outcome.outcome_quality
           ELSE IF success THEN "complete" ELSE "incomplete"]

\* The validation left out.
QualityValid_Unchecked(entry) == TRUE

\* Lines 136-139.
QualityValid(entry) == entry.outcome_quality \in validQualities

(***************************************************************************)
(* The CLI's end command (lines 249-265): the outcome built from argv.     *)
(* argv is the object of the flags given, --flag=value as flag |-> value;  *)
(* the value of --duration is the text of a number, or other text.         *)
(***************************************************************************)
\* parseFloat(text); parseFloat(undefined) is NaN.
parseFloat(argv, flag) ==
  IF Has(argv, flag) /\ argv[flag].t = "number" THEN argv[flag] ELSE NaN

CliOutcome(argv) ==
  ("success" :> Has(argv, "--success"))
  @@ (IF Has(argv, "--failure") THEN "failure_reason" :> argv["--failure"] ELSE EmptyObj)
  @@ ("duration_min" :> parseFloat(argv, "--duration"))
  @@ (IF Has(argv, "--quality") THEN "outcome_quality" :> argv["--quality"] ELSE EmptyObj)

(***************************************************************************)
(* getTasks (lines 165-185): the filters and the limit, applied to the     *)
(* entries readLog returned.  options.since and options.limit are numbers. *)
(***************************************************************************)
\* if (options.k) for a number: undefined and 0 are falsy.
Truthy(options, k) == Has(options, k) /\ options[k] # 0

\* xs.slice(k): from index k on, a negative k counting from the end.
Slice(xs, k) ==
  LET start == IF k < 0
               THEN (IF Len(xs) + k < 0 THEN 0 ELSE Len(xs) + k)
               ELSE (IF k > Len(xs) THEN Len(xs) ELSE k)
  IN SubSeq(xs, start + 1, Len(xs))

\* The success filter under if (options.success): false never filters.
FilterBySuccess_Truthy(entries, options) ==
  IF Has(options, "success") /\ options.success
  THEN SelectSeq(entries, LAMBDA e : e.success = options.success)
  ELSE entries

\* Lines 170-172.
FilterBySuccess(entries, options) ==
  IF Has(options, "success")
  THEN SelectSeq(entries, LAMBDA e : e.success = options.success)
  ELSE entries

\* Lines 175-177.
FilterBySince(entries, options) ==
  IF Truthy(options, "since")
  THEN SelectSeq(entries, LAMBDA e : DateGetTime(e.start_ts) >= options.since)
  ELSE entries

\* The limit taken from the front: slice(0, limit).
LimitResults_Oldest(entries, options) ==
  IF Truthy(options, "limit")
  THEN SubSeq(entries, 1, IF options.limit > Len(entries) THEN Len(entries)
                          ELSE options.limit)
  ELSE entries

\* Lines 180-182.
LimitResults(entries, options) ==
  IF Truthy(options, "limit") THEN Slice(entries, 0 - options.limit) ELSE entries

getTasks(entries, options) ==
  LimitResults(FilterBySince(FilterBySuccess(entries, options), options), options)

(***************************************************************************)
(* The memory oracle (src/src/atlas-memory-oracle.js).  Text is a string   *)
(* of ASCII characters; the check mark U+2705 is written "@".              *)
(***************************************************************************)
CharAt(s, i) == SubSeq(s, i, i)

\* What \s matches and trim removes.
Whitespace == {" ", "\n", "\t"}

UpperCase == "ABCDEFGHIJKLMNOPQRSTUVWXYZ"
LowerCase == "abcdefghijklmnopqrstuvwxyz"
\* What \w matches.
WordChars == LowerCase \o UpperCase \o "0123456789_"

\* The place of character c in alphabet, 0 when it is not there.
IndexOf(alphabet, c) ==
  IF \E i \in 1..Len(alphabet) : CharAt(alphabet, i) = c
  THEN CHOOSE i \in 1..Len(alphabet) : CharAt(alphabet, i) = c
  ELSE 0

\* String.prototype.toLowerCase
LowerChar(c) ==
  LET i == IndexOf(UpperCase, c) IN IF i = 0 THEN c ELSE CharAt(LowerCase, i)
RECURSIVE toLowerCase(_)
toLowerCase(s) ==
  IF s = "" THEN "" ELSE LowerChar(CharAt(s, 1)) \o toLowerCase(SubSeq(s, 2, Len(s)))

\* String.prototype.trim
RECURSIVE StrTrimStart(_)
StrTrimStart(s) ==
  IF s # "" /\ CharAt(s, 1) \in Whitespace
  THEN StrTrimStart(SubSeq(s, 2, Len(s))) ELSE s
RECURSIVE StrTrimEnd(_)
StrTrimEnd(s) ==
  IF s # "" /\ CharAt(s, Len(s)) \in Whitespace
  THEN StrTrimEnd(SubSeq(s, 1, Len(s) - 1)) ELSE s
StrTrim(s) == StrTrimEnd(StrTrimStart(s))

\* String.prototype.includes
Includes(s, t) ==
  \E i \in 1..(Len(s) - Len(t) + 1) : SubSeq(s, i, i + Len(t) - 1) = t

\* content.split('\n'), from character i on, cur being the line so far.
RECURSIVE SplitLinesFrom(_, _, _)
SplitLinesFrom(s, i, cur) ==
  IF i > Len(s) THEN <<cur>>
  ELSE IF CharAt(s, i) = "\n" THEN <<cur>> \o SplitLinesFrom(s, i + 1, "")
  ELSE SplitLinesFrom(s, i + 1, cur \o CharAt(s, i))
SplitLines(content) == SplitLinesFrom(content, 1, "")

\* text.split(/\s+/): a run of whitespace is one separator.
RECURSIVE SplitWhitespaceFrom(_, _, _)
SplitWhitespaceFrom(s, i, cur) ==
  IF i > Len(s) THEN <<cur>>
  ELSE IF CharAt(s, i) \in Whitespace
  THEN IF i > 1 /\ CharAt(s, i - 1) \in Whitespace
       THEN SplitWhitespaceFrom(s, i + 1, cur)
       ELSE <<cur>> \o SplitWhitespaceFrom(s, i + 1, "")
  ELSE SplitWhitespaceFrom(s, i + 1, cur \o CharAt(s, i))
SplitWhitespace(text) == SplitWhitespaceFrom(text, 1, "")

\* lines.join('\n')
RECURSIVE Join(_)
Join(lines) ==
  IF lines = <<>> THEN ""
  ELSE IF Len(lines) = 1 THEN lines[1]
  ELSE lines[1] \o "\n" \o Join(Tail(lines))

\* Line 156.
stopWords ==
  {"the", "a", "an", "and", "or", "but", "in", "on", "at", "to", "for", "of",
   "with", "by", "from", "is", "are", "was", "were", "be", "been"}

\* [^\w\s-]
IsPunctuation(c) == ~(IndexOf(WordChars, c) # 0 \/ c \in Whitespace \/ c = "-")

\* Punctuation deleted, not replaced by a space.
RECURSIVE ReplacePunctuation_Deleting(_)
ReplacePunctuation_Deleting(text) ==
  IF text = "" THEN ""
  ELSE (IF IsPunctuation(CharAt(text, 1)) THEN "" ELSE CharAt(text, 1))
       \o ReplacePunctuation_Deleting(SubSeq(text, 2, Len(text)))

\* .replace(/[^\w\s-]/g, ' ')
RECURSIVE ReplacePunctuation(_)
ReplacePunctuation(text) ==
  IF text = "" THEN ""
  ELSE (IF IsPunctuation(CharAt(text, 1)) THEN " " ELSE CharAt(text, 1))
       \o ReplacePunctuation(SubSeq(text, 2, Len(text)))

\* extractKeywords (lines 154-163).
extractKeywords(query) ==
  SelectSeq(SplitWhitespace(ReplacePunctuation(toLowerCase(query))),
            LAMBDA word : Len(word) > 2 /\ word \notin stopWords)

\* The line compared as it is written, not lower-cased.
Score_CaseSensitive(line, query, keywords) ==
  LET queryLower == toLowerCase(query)
  IN (IF Includes(line, queryLower) THEN 10 ELSE 0)
     + 2 * Cardinality({k \in 1..Len(keywords) : Includes(line, keywords[k])})

\* The relevance score of a line (lines 111-122).
Score(line, query, keywords) ==
  LET lineLower == toLowerCase(line)
      queryLower == toLowerCase(query)
  IN (IF Includes(lineLower, queryLower) THEN 10 ELSE 0)
     + 2 * Cardinality({k \in 1..Len(keywords) : Includes(lineLower, keywords[k])})

\* The match pushed for the line at 0-based index i (lines 125-135).
Match(lines, i, score, options) ==
  LET startLine == IF i - options.contextLines < 0 THEN 0
                   ELSE i - options.contextLines
      endLine == IF Len(lines) - 1 < i + options.contextLines THEN Len(lines) - 1
                 ELSE i + options.contextLines
      context == Join(SubSeq(lines, startLine + 1, endLine + 1))
  IN [file |-> options.fileName,
      line |-> i + 1,
      score |-> score,
      match_line |-> StrTrim(lines[i + 1]),
      context |-> StrTrim(context)]

\* The scan never stopping at maxResults.
Capped_Never(matches, options) == FALSE

\* Line 137.
Capped(matches, options) == Len(matches) >= options.maxResults

\* The for loop of lines 109-141 from 0-based index i on.
RECURSIVE ScanLines(_, _, _, _, _, _)
ScanLines(lines, i, matches, query, keywords, options) ==
  IF i >= Len(lines) THEN matches
  ELSE LET score == Score(lines[i + 1], query, keywords)
           pushed == Append(matches, Match(lines, i, score, options))
       IN IF score > 0
          THEN IF Capped(pushed, options) THEN pushed
               ELSE ScanLines(lines, i + 1, pushed, query, keywords, options)
          ELSE ScanLines(lines, i + 1, matches, query, keywords, options)

\* The matches left in the order of the scan.
SortByScore_Unsorted(matches) == matches

\* matches.sort((a, b) => b.score - a.score): stable, highest score first.
RECURSIVE SortByScore(_)
SortByScore(matches) ==
  IF matches = <<>> THEN <<>>
  ELSE LET top == CHOOSE i \in 1..Len(matches) :
                    /\ \A j \in 1..Len(matches) : matches[j].score <= matches[i].score
                    /\ \A j \in 1..(i - 1) : matches[j].score < matches[i].score
       IN <<matches[top]>>
          \o SortByScore(SubSeq(matches, 1, top - 1)
                         \o SubSeq(matches, top + 1, Len(matches)))

\* searchFile (lines 103-147).
searchFile(content, query, options) ==
  SortByScore(ScanLines(SplitLines(content), 0, <<>>, query,
                        extractKeywords(query), options))

\* The three tests of analyzePatterns taken as if ... else if ... else if.
Classify_Exclusive(match) ==
  LET text == toLowerCase(match.match_line \o " " \o match.context)
      has(words) == \E w \in words : Includes(text, w)
      prior == has({"build", "implement", "create"})
      failure == has({"fail", "error", "bug", "broke", "issue", "problem"})
      success == has({"complete", "success", "ship", "@", "done"})
  IN [prior_attempts |-> prior,
      failures |-> ~prior /\ failure,
      successes |-> ~prior /\ ~failure /\ success]

\* The three tests analyzePatterns makes of one match (lines 171-188).
Classify(match) ==
  LET text == toLowerCase(match.match_line \o " " \o match.context)
      has(words) == \E w \in words : Includes(text, w)
  IN [prior_attempts |-> has({"build", "implement", "create"}),
      failures |-> has({"fail", "error", "bug", "broke", "issue", "problem"}),
      successes |-> has({"complete", "success", "ship", "@", "done"})]

\* analyzePatterns (lines 169-190), from match i on.
RECURSIVE AnalyzeFrom(_, _, _)
AnalyzeFrom(matches, i, summary) ==
  IF i > Len(matches) THEN summary
  ELSE LET c == Classify(matches[i])
           inc(b) == IF b THEN 1 ELSE 0
       IN AnalyzeFrom(matches, i + 1,
            [summary EXCEPT !.prior_attempts = @ + inc(c.prior_attempts),
                            !.failures = @ + inc(c.failures),
                            !.successes = @ + inc(c.successes)])
analyzePatterns(results) ==
  [results EXCEPT !.summary = AnalyzeFrom(results.matches, 1, @)]

\* Lines 24-29.
DEFAULT_MEMORY_FILES == <<"MEMORY.md", "DEVLOG.md", "CHANGELOG.md", "TODO.md">>

\* !(!query || typeof query !== 'string')
QueryValid(query) == query.type = "string" /\ query.s # ""

(***************************************************************************)
(* formatResults: the results as text.                                     *)
(***************************************************************************)
\* A number of n digits at least, zeros in front.
RECURSIVE PadStart(_, _)
PadStart(text, n) == IF Len(text) >= n THEN text ELSE PadStart("0" \o text, n)

\* The text of an ISO string: Date.prototype.toISOString of an instant of
\* the first hour of the epoch.
ISOText(iso) ==
  "1970-01-01T00:" \o PadStart(ToString(iso.ms \div 60000), 2) \o ":"
  \o PadStart(ToString((iso.ms \div 1000) % 60), 2) \o "."
  \o PadStart(ToString(iso.ms % 1000), 3) \o "Z"

\* Lines 207-211.
FormatHeader(results) ==
  <<"# Memory Oracle Results", "",
    "**Query:** " \o results.query,
    "**Timestamp:** " \o ISOText(results.timestamp),
    "">>

\* Lines 214-220.
FormatSummary(results) ==
  <<"## Summary",
    "- **Total Matches:** " \o ToString(results.summary.total_matches),
    "- **Files Searched:** " \o ToString(results.summary.files_searched),
    "- **Prior Attempts:** " \o ToString(results.summary.prior_attempts),
    "- **Failures:** " \o ToString(results.summary.failures),
    "- **Successes:** " \o ToString(results.summary.successes),
    "">>

\* Line 223.
NoContextNotice == "**No relevant context found.** This appears to be a new task."

\* The code fence of lines 237 and 243, three backquotes, written with
\* tildes.
Fence == "~~~"

\* One turn of the loop over the matches (lines 232-245).
FormatMatch(match, compact, includeContext) ==
  <<"### " \o match.file \o ":" \o ToString(match.line)
      \o " (score: " \o ToString(match.score) \o ")">>
  \o (IF compact THEN <<"> " \o match.match_line>>
      ELSE <<Fence,
             IF includeContext THEN match.context ELSE match.match_line,
             Fence>>)
  \o <<"">>

\* Lines 231-246.
RECURSIVE FormatMatches(_, _, _, _)
FormatMatches(matches, i, compact, includeContext) ==
  IF i > Len(matches) THEN <<>>
  ELSE FormatMatch(matches[i], compact, includeContext)
       \o FormatMatches(matches, i + 1, compact, includeContext)

\* options.compact || false
Compact(options) == Has(options, "compact") /\ options.compact
\* options.includeContext !== undefined ? options.includeContext : true
IncludeContext(options) ==
  IF Has(options, "includeContext") THEN options.includeContext ELSE TRUE

\* formatResults without the return of line 224.
formatResults_NoReturn(results, options) ==
  Join(FormatHeader(results) \o FormatSummary(results)
       \o (IF Len(results.matches) = 0 THEN <<NoContextNotice>> ELSE <<>>)
       \o <<"## Relevant Context", "">>
       \o FormatMatches(results.matches, 1, Compact(options),
                        IncludeContext(options)))

\* Lines 200-249.
formatResults(results, options) ==
  Join(FormatHeader(results) \o FormatSummary(results)
       \o (IF Len(results.matches) = 0 THEN <<NoContextNotice>>
           ELSE <<"## Relevant Context", "">>
                \o FormatMatches(results.matches, 1, Compact(options),
                                 IncludeContext(options))))


(***************************************************************************)
(* The arguments callers pass.                                             *)
(***************************************************************************)
Obj1(k, S) == {EmptyObj} \cup {k :> v : v \in S}

\* What one caller at a time passes.
DescriptionArgs ==
  {[type |-> "string", s |-> <<"a">>],
   [type |-> "string", s |-> <<" ", "a", " ", "b", " ">>],
   [type |-> "string", s |-> <<" ">>],
   [type |-> "string", s |-> <<>>],
   [type |-> "undefined", s |-> <<>>]}

OptionsArgs == Obj1("metadata", {EmptyObj, [a |-> 1]})

UpdatesArgs ==
  Obj1("tools_used", {<<>>, <<"exec">>, <<"exec", "write">>, <<"write", "exec">>,
                      <<"write", "write">>})
  \cup Obj1("files_modified", {<<>>, <<"src/x.js">>, <<"src/y.js", "src/x.js">>})
  \cup {[metadata |-> [a |-> 2, b |-> 1]],
        [tools_used |-> <<"exec">>, files_modified |-> <<"src/x.js">>]}

OutcomeArgs ==
  {EmptyObj,
   [success |-> TRUE],
   [success |-> FALSE, failure_reason |-> "boom"],
   [success |-> TRUE, failure_reason |-> "boom"],
   [success |-> TRUE, duration_min |-> Num(45678)],
   [outcome_quality |-> "partial"],
   [success |-> TRUE, outcome_quality |-> "abandoned"],
   [success |-> TRUE, outcome_quality |-> "bogus"],
   [outcome_quality |-> ""]}

ArgvArgs ==
  {EmptyObj,
   "--success" :> "",
   ("--success" :> "") @@ ("--duration" :> Num(45678)),
   "--duration" :> Str("soon"),
   "--quality" :> "abandoned"}

\* One caller exercising updateTask and endTask.
SeqArgs ==
  [description |-> {[type |-> "string", s |-> <<"a">>]},
   options |-> {EmptyObj},
   updates |-> UpdatesArgs, outcome |-> OutcomeArgs, argv |-> ArgvArgs,
   taskId |-> {"fake-id", ""},
   maxTasks |-> MaxTasks, maxCalls |-> MaxCalls]

\* One caller exercising startTask and getTask.
StartArgs ==
  [description |-> DescriptionArgs, options |-> OptionsArgs,
   taskId |-> {"fake-id"},
   maxTasks |-> MaxTasks, maxCalls |-> MaxCalls]

\* Concurrent callers.
ConcArgs ==
  [description |-> {[type |-> "string", s |-> <<"a">>]},
   options |-> {EmptyObj},
   updates |-> {[tools_used |-> <<"exec">>], [files_modified |-> <<"src/x.js">>]},
   outcome |-> {[success |-> TRUE], [outcome_quality |-> "bogus"]},
   argv |-> {EmptyObj},
   taskId |-> {"fake-id"},
   maxTasks |-> MaxTasks, maxCalls |-> MaxCalls]

\* Concurrent callers of startTask.
CreateArgs ==
  [description |-> {[type |-> "string", s |-> <<"a">>],
                    [type |-> "string", s |-> <<>>]},
   options |-> OptionsArgs,
   maxTasks |-> MaxTasks + 1]

\* One caller of updateTask on one record.
UpdArgs ==
  [description |-> {[type |-> "string", s |-> <<"a">>]},
   options |-> {EmptyObj},
   updates |-> UpdatesArgs,
   maxTasks |-> 1, maxCalls |-> MaxCalls + 1]

\* The options of getTasks: success, since (ms) and limit, each given or not.
QueryOptionsArgs ==
  {s @@ t @@ l : s \in Obj1("success", {TRUE, FALSE}),
                 t \in Obj1("since", {0, ClockStep, 2 * ClockStep}),
                 l \in Obj1("limit", 0..(MaxTasks + 2))}

\* One caller of getTasks over records started at different times, some
\* ended with success and some without.
QueryArgs ==
  [description |-> {[type |-> "string", s |-> <<"a">>]},
   options |-> {EmptyObj},
   outcome |-> {[success |-> TRUE], EmptyObj},
   query |-> QueryOptionsArgs,
   maxTasks |-> MaxTasks + 1, maxCalls |-> MaxCalls + 1]

\* One caller of every operation on a log other writers touch too.
ReadArgs ==
  [description |-> {[type |-> "string", s |-> <<"a">>]},
   options |-> {EmptyObj},
   updates |-> {[tools_used |-> <<"exec">>]},
   outcome |-> {[success |-> TRUE]},
   query |-> {EmptyObj, [limit |-> 1]},
   taskId |-> {"fake-id", ""},
   maxTasks |-> MaxTasks, maxCalls |-> MaxCalls]

\* Metadata objects: numbers and nested objects under a few keys.
MetadataArgs ==
  {EmptyObj,
   [b |-> Num(2000)],
   [a |-> Num(2000)],
   [a |-> Num(3000), b |-> Num(1000)],
   [n |-> [x |-> Num(9000)]],
   [n |-> Num(5000)],
   [a |-> Num(1000), n |-> [x |-> Num(1000), y |-> Num(2000)]]}

\* One caller of updateTask on the metadata of one record.
MetaArgs ==
  [description |-> {[type |-> "string", s |-> <<"a">>]},
   options |-> Obj1("metadata", MetadataArgs),
   updates |-> {[metadata |-> m] : m \in MetadataArgs}
               \cup {[tools_used |-> <<"exec">>]},
   maxTasks |-> 1, maxCalls |-> MaxCalls]

\* The directories of memory files searched: file name to content, a name
\* that is not there being a file that does not exist.
WorkspaceArgs ==
  {("MEMORY.md" :> "Build cache\ncache failed\ndone\n\n  Fix Cache bug  \nnotes\nfix cache bug")
     @@ ("DEVLOG.md" :> "cache shipped\n\n\nplain cache\n\n\nold bug\n"),
   ("MEMORY.md" :> "cache @ ok")
     @@ ("TODO.md" :> "Cache\ncache one\nCACHE two\n the cache"),
   EmptyObj}

\* The queries of searchContext: strings, and a value that is no string.
QueryArgs_Oracle ==
  {[type |-> "string", s |-> q] :
     q \in {"fix cache bug", "Cache", " cache  ", "cache cache", "zzz", "", "  "}}
  \cup {[type |-> "undefined", s |-> ""]}

\* The options of searchContext, each given or not.
SearchOptionsArgs ==
  {f @@ m @@ c :
     f \in Obj1("files", {<<"DEVLOG.md", "MEMORY.md">>, <<"MEMORY.md", "MEMORY.md">>,
                          <<"MISSING.md", "MEMORY.md">>}),
     m \in Obj1("maxResults", 0..3),
     c \in Obj1("contextLines", 0..1)}

\* The texts given to extractKeywords.
KeywordTextArgs ==
  {"Build CI/CD pipeline!", "CI-CD test-coverage", "the quick brown fox",
   "a to in on at", "BUILD TEST", "  fix   the cache  ", "", "don't stop",
   "cache cache", "---", "x_1 ab", "The\tEnd\nis near."}

\* The searches whose results are formatted: memory files of which one holds
\* a markdown heading, queries with and without matches.
FormatWorkspaceArgs ==
  WorkspaceArgs
  \cup {("MEMORY.md" :> "### Cache notes\ncache failed\n\ndone\n### Old cache")}
FormatQueryArgs ==
  {[type |-> "string", s |-> q] : q \in {"cache", " fix cache ", "zzz"}}
FormatSearchArgs ==
  {m @@ c : m \in Obj1("maxResults", {2}), c \in Obj1("contextLines", {1})}

\* The options of formatResults, each given or not.
FormatOptionsArgs ==
  {c @@ i : c \in Obj1("compact", BOOLEAN), i \in Obj1("includeContext", BOOLEAN)}

\* The durations callers give: whole minutes, two decimals, three decimals
\* (none half-way between two hundredths), zero.
DurationArgs == {Num(45000), Num(45670), Num(45678), Num(1234), Num(0)}

\* One caller of endTask on one record.
EndArgs ==
  [description |-> {[type |-> "string", s |-> <<"a">>]},
   options |-> {EmptyObj},
   outcome |-> OutcomeArgs
               \cup {[duration_min |-> d] : d \in DurationArgs}
               \cup {[success |-> FALSE],
                     [failure_reason |-> "boom"],
                     [failure_reason |-> ""],
                     [success |-> FALSE, outcome_quality |-> "complete"]},
   argv |-> ArgvArgs
            \cup {"--duration" :> d : d \in DurationArgs}
            \cup {"--failure" :> "boom", "--failure" :> "", "--quality" :> ""},
   maxTasks |-> 1, maxCalls |-> MaxCalls]

(***************************************************************************)
(* State.                                                                  *)
(*   now      the wall clock, in ms                                        *)
(*   file     the log file                                                 *)
(*   uuids    how many identifiers randomUUID has drawn                    *)
(*   calls    how many updateTask/endTask/getTask calls were made          *)
(*   pc       where each caller's async call stands                        *)
(*   arg      the arguments of its call                                    *)
(*   entries  the caller's `entries` array between readLog and rewriteLog  *)
(*   before   the caller's `entry` as read, entry the same as it stands    *)
(*   ret      what the call returned or threw                              *)
(*   last     the caller's previous call, when it was a startTask or an    *)
(*            updateTask that returned                                     *)
(*   returned the identifiers startTask has returned so far                *)
(*   workspace the memory files of the oracle's workspace, by name          *)
(*   search   the oracle's call in flight                                  *)
(***************************************************************************)
VARIABLES now, file, uuids, calls, pc, arg, entries, before, entry, ret, last,
          returned, workspace, search

\* The tracker's variables and the memory oracle's.
trackerVars == <<now, file, uuids, calls, pc, arg, entries, before, entry, ret,
                 last, returned>>
oracleVars == <<workspace, search>>
vars == <<trackerVars, oracleVars>>

NoEntry == EmptyObj
NoCall == [op |-> "none"]
NoRet == [ok |-> TRUE, value |-> "pending"]
Returns(v) == [ok |-> TRUE, value |-> v]
Throws(msg) == [ok |-> FALSE, error |-> msg]

\* No directory of memory files, no search in flight.
NoWorkspace == EmptyObj
NoSearch == [pc |-> "idle"]

InitTracker ==
  /\ now = 0
  /\ file = NoFile
  /\ uuids = 0
  /\ calls = 0
  /\ pc = [p \in Procs |-> "idle"]
  /\ arg = [p \in Procs |-> NoCall]
  /\ entries = [p \in Procs |-> <<>>]
  /\ before = [p \in Procs |-> NoEntry]
  /\ entry = [p \in Procs |-> NoEntry]
  /\ ret = [p \in Procs |-> NoRet]
  /\ last = [p \in Procs |-> NoCall]
  /\ returned = {}

Init ==
  /\ InitTracker
  /\ workspace = NoWorkspace
  /\ search = NoSearch

\* The clock advances between any two steps.
Tick ==
  /\ now + ClockStep <= MaxNow
  /\ now' = now + ClockStep
  /\ UNCHANGED <<file, uuids, calls, pc, arg, entries, before, entry, ret, last,
                 returned>>
  /\ UNCHANGED oracleVars

\* Whether a finished call is one the caller's next call may build on.
Wrote(p) == ret[p].ok /\ arg[p].op \in {"startTask", "updateTask"}

\* A finished call leaves the caller free for its next one.
Return(p) ==
  /\ pc[p] = "done"
  /\ pc' = [pc EXCEPT ![p] = "idle"]
  /\ last' = [last EXCEPT ![p] =
       IF Wrote(p) THEN [op |-> arg[p].op, arg |-> arg[p], before |-> before[p],
                         entry |-> entry[p]]
       ELSE NoCall]
  /\ arg' = [arg EXCEPT ![p] = NoCall]
  /\ before' = [before EXCEPT ![p] = NoEntry]
  /\ entry' = [entry EXCEPT ![p] = NoEntry]
  /\ ret' = [ret EXCEPT ![p] = NoRet]
  /\ UNCHANGED <<now, file, uuids, calls, entries, returned>>
  /\ UNCHANGED oracleVars

\* startTask up to its await of appendToLog (lines 34-57).
StartTask(p, description, options, maxTasks) ==
  /\ pc[p] = "idle"
  /\ arg' = [arg EXCEPT ![p] =
       [op |-> "startTask", description |-> description, options |-> options]]
  /\ IF ~DescriptionValid(description)
     THEN /\ ret' = [ret EXCEPT ![p] =
                Throws("Task description is required and must be a string")]
          /\ pc' = [pc EXCEPT ![p] = "done"]
          /\ UNCHANGED <<uuids, entry>>
     ELSE /\ uuids < maxTasks
          /\ uuids' = uuids + 1
          /\ entry' = [entry EXCEPT ![p] =
                NewEntry(randomUUID(uuids + 1), description, options, now)]
          /\ pc' = [pc EXCEPT ![p] = "appendToLog"]
          /\ UNCHANGED ret
  /\ UNCHANGED <<now, file, calls, entries, before, last, returned>>
  /\ UNCHANGED oracleVars

\* The append lands and startTask returns the id (lines 57-58, 193-197).
StartTaskAppend(p) ==
  /\ pc[p] = "appendToLog"
  /\ file' = appendToLog(file, entry[p])
  /\ ret' = [ret EXCEPT ![p] = Returns(entry[p].task_id)]
  /\ returned' = returned \cup {entry[p].task_id}
  /\ pc' = [pc EXCEPT ![p] = "done"]
  /\ UNCHANGED <<now, uuids, calls, arg, entries, before, entry, last>>
  /\ UNCHANGED oracleVars

\* The task ids callers pass: the ones startTask gave out, and others.
TaskIdArgs(others) == {randomUUID(n) : n \in 1..uuids} \cup others

\* !(!taskId || typeof taskId !== 'string') for a string taskId
TaskIdValid(taskId) == taskId # ""

\* updateTask, endTask, getTask or getTasks up to its await of readLog
\* (lines 71-77, 109-115, 150-152, 165-167).
Call(p, a, maxCalls) ==
  /\ pc[p] = "idle"
  /\ calls < maxCalls
  /\ calls' = calls + 1
  /\ arg' = [arg EXCEPT ![p] = a]
  /\ IF a.op \in {"updateTask", "endTask"} /\ ~TaskIdValid(a.taskId)
     THEN /\ ret' = [ret EXCEPT ![p] = Throws("Task ID is required and must be a string")]
          /\ pc' = [pc EXCEPT ![p] = "done"]
     ELSE /\ pc' = [pc EXCEPT ![p] = "readLog"]
          /\ UNCHANGED ret
  /\ UNCHANGED <<now, file, uuids, entries, before, entry, last, returned>>
  /\ UNCHANGED oracleVars

UpdateTask(p, taskId, updates, maxCalls) ==
  Call(p, [op |-> "updateTask", taskId |-> taskId, updates |-> updates], maxCalls)

EndTask(p, taskId, outcome, maxCalls) ==
  Call(p, [op |-> "endTask", taskId |-> taskId, outcome |-> outcome,
           cli |-> FALSE, argv |-> EmptyObj], maxCalls)

\* atlas-tracker end <task_id> [flags] (lines 249-263).
CliEnd(p, taskId, argv, maxCalls) ==
  /\ taskId # ""
  /\ Call(p, [op |-> "endTask", taskId |-> taskId, outcome |-> CliOutcome(argv),
              cli |-> TRUE, argv |-> argv], maxCalls)

GetTask(p, taskId, maxCalls) ==
  Call(p, [op |-> "getTask", taskId |-> taskId], maxCalls)

GetTasks(p, options, maxCalls) ==
  /\ pc[p] = "idle"
  /\ Call(p, [op |-> "getTasks", options |-> options], maxCalls)

\* readLog resolves; the caller runs on to its next await or to its end.
\* updateTask lines 77-95, endTask lines 115-141, getTask lines 152-153,
\* getTasks lines 167-184.
ReadLog(p) ==
  /\ pc[p] = "readLog"
  /\ LET r == readLog(file)
         i == FindIndex(r.entries, arg[p].taskId)
         found == r.entries[i]
         mutated == IF arg[p].op = "updateTask"
                    THEN MergeUpdates(found, arg[p].updates)
                    ELSE Finalize(found, arg[p].outcome, now)
     IN IF ~r.ok
        THEN /\ ret' = [ret EXCEPT ![p] = Throws("SyntaxError")]
             /\ pc' = [pc EXCEPT ![p] = "done"]
             /\ UNCHANGED <<entries, before, entry>>
        ELSE IF arg[p].op = "getTasks"
        THEN /\ ret' = [ret EXCEPT ![p] = Returns(getTasks(r.entries, arg[p].options))]
             /\ pc' = [pc EXCEPT ![p] = "done"]
             /\ UNCHANGED <<entries, before, entry>>
        ELSE IF arg[p].op = "getTask"
        THEN /\ ret' = [ret EXCEPT ![p] = Returns(IF i = 0 THEN Null ELSE found)]
             /\ pc' = [pc EXCEPT ![p] = "done"]
             /\ UNCHANGED <<entries, before, entry>>
        ELSE IF i = 0
        THEN /\ ret' = [ret EXCEPT ![p] = Throws("Task not found")]
             /\ pc' = [pc EXCEPT ![p] = "done"]
             /\ UNCHANGED <<entries, before, entry>>
        ELSE /\ before' = [before EXCEPT ![p] = found]
             /\ entry' = [entry EXCEPT ![p] = mutated]
             /\ IF arg[p].op = "endTask" /\ ~QualityValid(mutated)
                THEN /\ ret' = [ret EXCEPT ![p] = Throws("Invalid outcome_quality")]
                     /\ pc' = [pc EXCEPT ![p] = "done"]
                     /\ UNCHANGED entries
                ELSE /\ entries' = [entries EXCEPT ![p] = [r.entries EXCEPT ![i] = mutated]]
                     /\ pc' = [pc EXCEPT ![p] = "rewriteLog"]
                     /\ UNCHANGED ret
  /\ UNCHANGED <<now, file, uuids, calls, arg, last, returned>>
  /\ UNCHANGED oracleVars

\* rewriteLog's writeFile lands and the call returns (lines 95, 141, 226-230).
RewriteLog(p) ==
  /\ pc[p] = "rewriteLog"
  /\ file' = rewriteLog(file, entries[p])
  /\ entries' = [entries EXCEPT ![p] = <<>>]
  /\ ret' = [ret EXCEPT ![p] = Returns("undefined")]
  /\ pc' = [pc EXCEPT ![p] = "done"]
  /\ UNCHANGED <<now, uuids, calls, arg, before, entry, last, returned>>
  /\ UNCHANGED oracleVars

\* s with x put in after its first i elements.
InsertAt(s, i, x) == SubSeq(s, 1, i) \o <<x>> \o SubSeq(s, i + 1, Len(s))

\* What another writer can leave at the log's path: an empty file, blank
\* lines only, or the file with a blank line or a line that is no JSON put
\* in among its lines.
ExternalContents(f) ==
  {[exists |-> TRUE, lines |-> <<>>, tail |-> <<>>],
   [exists |-> TRUE, lines |-> << <<>>, <<>> >>, tail |-> <<>>]}
  \cup {[exists |-> TRUE, lines |-> InsertAt(f.lines, i, l), tail |-> <<>>] :
          i \in 0..Len(f.lines),
          l \in {x \in {<<>>, <<InvalidJson>>} : \A j \in 1..Len(f.lines) : f.lines[j] # x}}

\* Another writer replaces the log file between two calls of the caller.
ExternalWrite ==
  /\ \A p \in Procs : pc[p] = "idle"
  /\ file' \in ExternalContents(file)
  /\ UNCHANGED <<now, uuids, calls, pc, arg, entries, before, entry, ret, last,
                 returned>>
  /\ UNCHANGED oracleVars

(***************************************************************************)
(* The memory oracle's calls.  search is the call in flight:               *)
(*   pc       idle, readFile (about to read files[i]) or done              *)
(*   files, maxResults, contextLines   the options as defaulted             *)
(*   results  the results object as built so far                           *)
(*   reads    how many files were read                                     *)
(*   spans    how many matches each file listed has added                  *)
(*   ret      what the call returned or threw                              *)
(***************************************************************************)
\* searchContext up to its first await (lines 43-64).
SearchContext(query, options) ==
  /\ search.pc = "idle"
  /\ search' =
       IF ~QueryValid(query)
       THEN [pc |-> "done", op |-> "searchContext", query |-> query,
             options |-> options, reads |-> 0,
             ret |-> Throws("Query is required and must be a string")]
       ELSE [pc |-> "readFile", op |-> "searchContext", query |-> query,
             options |-> options,
             files |-> IF Has(options, "files") THEN options.files
                       ELSE DEFAULT_MEMORY_FILES,
             maxResults |-> IF Truthy(options, "maxResults")
                            THEN options.maxResults ELSE 5,
             contextLines |-> IF Truthy(options, "contextLines")
                              THEN options.contextLines ELSE 3,
             i |-> 1, reads |-> 0, spans |-> <<>>,
             results |-> [query |-> StrTrim(query.s),
                          timestamp |-> ISOString(now),
                          matches |-> <<>>,
                          summary |-> [total_matches |-> 0, files_searched |-> 0,
                                       prior_attempts |-> 0, failures |-> 0,
                                       successes |-> 0]],
             ret |-> NoRet]
  /\ UNCHANGED <<workspace, trackerVars>>

\* fs.readFile on a memory file (line 70): its content, or the error of a
\* file that does not exist.
readFile(ws, name) ==
  IF Has(ws, name) THEN [ok |-> TRUE, content |-> ws[name]]
  ELSE [ok |-> FALSE, code |-> "ENOENT"]

\* The catch of the loop (lines 82-87): the error is swallowed, the file has
\* added nothing and the loop goes on.
OnReadError_Rethrow(s, err) ==
  [s EXCEPT !.pc = "done", !.reads = @ + 1, !.ret = Throws(err.code)]

OnReadError(s, err) ==
  [s EXCEPT !.i = @ + 1, !.reads = @ + 1, !.spans = Append(@, 0)]

\* One turn of the loop over the files (lines 66-88): the file is read and
\* searched, a file that does not exist being skipped.
ReadFile ==
  /\ search.pc = "readFile"
  /\ search.i <= Len(search.files)
  /\ LET name == search.files[search.i]
         read == readFile(workspace, name)
         fileMatches ==
           searchFile(read.content, search.query.s,
                      [maxResults |-> search.maxResults,
                       contextLines |-> search.contextLines,
                       fileName |-> name])
     IN search' =
          IF ~read.ok THEN OnReadError(search, read)
          ELSE
          [search EXCEPT
             !.i = @ + 1,
             !.reads = @ + 1,
             !.spans = Append(@, Len(fileMatches)),
             !.results =
               IF fileMatches # <<>>
               THEN [@ EXCEPT
                       !.matches = @ \o fileMatches,
                       !.summary.files_searched = @ + 1,
                       !.summary.total_matches = @ + Len(fileMatches)]
               ELSE @]
  /\ UNCHANGED <<workspace, trackerVars>>

\* The loop is over: analyzePatterns, and the results are returned
\* (lines 90-93).
SearchReturn ==
  /\ search.pc = "readFile"
  /\ search.i > Len(search.files)
  /\ search' = [search EXCEPT
                  !.pc = "done",
                  !.results = analyzePatterns(@),
                  !.ret = Returns(analyzePatterns(search.results))]
  /\ UNCHANGED <<workspace, trackerVars>>

\* extractKeywords called by itself (lines 154-163).
ExtractKeywords(text) ==
  /\ search.pc = "idle"
  /\ search' = [pc |-> "done", op |-> "extractKeywords", text |-> text,
                ret |-> Returns(extractKeywords(text))]
  /\ UNCHANGED <<workspace, trackerVars>>

\* formatResults on the results a search returned (lines 200-249).
FormatResults(options) ==
  /\ search.pc = "done"
  /\ search.op = "searchContext"
  /\ search.ret.ok
  /\ search' = [pc |-> "formatted", formatOptions |-> options,
                output |-> formatResults(search.ret.value, options)] @@ search
  /\ UNCHANGED <<workspace, trackerVars>>

Step(p, args) ==
  \/ \E d \in args.description, o \in args.options :
       StartTask(p, d, o, args.maxTasks)
  \/ StartTaskAppend(p)
  \/ \E id \in TaskIdArgs(args.taskId), u \in args.updates :
       UpdateTask(p, id, u, args.maxCalls)
  \/ \E id \in TaskIdArgs(args.taskId), o \in args.outcome :
       EndTask(p, id, o, args.maxCalls)
  \/ \E id \in TaskIdArgs(args.taskId), a \in args.argv :
       CliEnd(p, id, a, args.maxCalls)
  \/ \E id \in TaskIdArgs(args.taskId) : GetTask(p, id, args.maxCalls)
  \/ ReadLog(p)
  \/ RewriteLog(p)
  \/ Return(p)

\* Any number of callers, interleaved at their awaits.
Next == Tick \/ \E p \in Procs : Step(p, ConcArgs)
Spec == Init /\ [][Next]_vars

\* One caller, each call awaited before the next is made.
NextSeq == Tick \/ Step(1, SeqArgs)
SpecSeq == Init /\ [][NextSeq]_vars

\* One caller of startTask and getTask.
NextStart ==
  \/ Tick
  \/ \E d \in StartArgs.description, o \in StartArgs.options :
       StartTask(1, d, o, StartArgs.maxTasks)
  \/ StartTaskAppend(1)
  \/ \E id \in TaskIdArgs(StartArgs.taskId) : GetTask(1, id, StartArgs.maxCalls)
  \/ ReadLog(1)
  \/ Return(1)
SpecStart == Init /\ [][NextStart]_vars

\* Concurrent callers of startTask alone.
NextCreate ==
  \/ Tick
  \/ \E p \in Procs :
       \/ \E d \in CreateArgs.description, o \in CreateArgs.options :
            StartTask(p, d, o, CreateArgs.maxTasks)
       \/ StartTaskAppend(p)
       \/ Return(p)
SpecCreate == Init /\ [][NextCreate]_vars

\* One caller of updateTask, again and again on one record.
NextUpdates ==
  \/ \E d \in UpdArgs.description, o \in UpdArgs.options :
       StartTask(1, d, o, UpdArgs.maxTasks)
  \/ StartTaskAppend(1)
  \/ \E id \in TaskIdArgs({}), u \in UpdArgs.updates :
       UpdateTask(1, id, u, UpdArgs.maxCalls)
  \/ ReadLog(1)
  \/ RewriteLog(1)
  \/ Return(1)
SpecUpdates == Init /\ [][NextUpdates]_vars

\* One caller of updateTask on the metadata of one record.
NextMeta ==
  \/ \E d \in MetaArgs.description, o \in MetaArgs.options :
       StartTask(1, d, o, MetaArgs.maxTasks)
  \/ StartTaskAppend(1)
  \/ \E id \in TaskIdArgs({}), u \in MetaArgs.updates :
       UpdateTask(1, id, u, MetaArgs.maxCalls)
  \/ ReadLog(1)
  \/ RewriteLog(1)
  \/ Return(1)
SpecMeta == Init /\ [][NextMeta]_vars

\* One caller of endTask (through the API or the CLI) on one record.
NextEnd ==
  \/ Tick
  \/ \E d \in EndArgs.description, o \in EndArgs.options :
       StartTask(1, d, o, EndArgs.maxTasks)
  \/ StartTaskAppend(1)
  \/ \E id \in TaskIdArgs({}), o \in EndArgs.outcome :
       EndTask(1, id, o, EndArgs.maxCalls)
  \/ \E id \in TaskIdArgs({}), a \in EndArgs.argv :
       CliEnd(1, id, a, EndArgs.maxCalls)
  \/ ReadLog(1)
  \/ RewriteLog(1)
  \/ Return(1)
SpecEnd == Init /\ [][NextEnd]_vars

\* One caller of getTasks over a log of several records.
NextQuery ==
  \/ Tick
  \/ \E d \in QueryArgs.description, o \in QueryArgs.options :
       StartTask(1, d, o, QueryArgs.maxTasks)
  \/ StartTaskAppend(1)
  \/ \E id \in TaskIdArgs({}), o \in QueryArgs.outcome :
       EndTask(1, id, o, QueryArgs.maxCalls)
  \/ \E o \in QueryArgs.query : GetTasks(1, o, QueryArgs.maxCalls)
  \/ ReadLog(1)
  \/ RewriteLog(1)
  \/ Return(1)
SpecQuery == Init /\ [][NextQuery]_vars

\* One caller of every operation, the log being written by others between
\* its calls.
NextRead ==
  \/ ExternalWrite
  \/ \E d \in ReadArgs.description, o \in ReadArgs.options :
       StartTask(1, d, o, ReadArgs.maxTasks)
  \/ StartTaskAppend(1)
  \/ \E id \in TaskIdArgs(ReadArgs.taskId), u \in ReadArgs.updates :
       UpdateTask(1, id, u, ReadArgs.maxCalls)
  \/ \E id \in TaskIdArgs(ReadArgs.taskId), o \in ReadArgs.outcome :
       EndTask(1, id, o, ReadArgs.maxCalls)
  \/ \E id \in TaskIdArgs(ReadArgs.taskId) : GetTask(1, id, ReadArgs.maxCalls)
  \/ \E o \in ReadArgs.query : GetTasks(1, o, ReadArgs.maxCalls)
  \/ ReadLog(1)
  \/ RewriteLog(1)
  \/ Return(1)
SpecRead == Init /\ [][NextRead]_vars

\* The memory oracle over a directory of memory files: one search, or one
\* call of extractKeywords.
InitOracle ==
  /\ InitTracker
  /\ workspace \in WorkspaceArgs
  /\ search = NoSearch

NextOracle ==
  \/ \E q \in QueryArgs_Oracle, o \in SearchOptionsArgs : SearchContext(q, o)
  \/ ReadFile
  \/ SearchReturn
  \/ \E t \in KeywordTextArgs : ExtractKeywords(t)
SpecOracle == InitOracle /\ [][NextOracle]_vars

\* A search and the formatting of what it returned.
InitFormat ==
  /\ InitTracker
  /\ workspace \in FormatWorkspaceArgs
  /\ search = NoSearch

NextFormat ==
  \/ Tick
  \/ \E q \in FormatQueryArgs, o \in FormatSearchArgs : SearchContext(q, o)
  \/ ReadFile
  \/ SearchReturn
  \/ \E o \in FormatOptionsArgs : FormatResults(o)
SpecFormat == InitFormat /\ [][NextFormat]_vars

(***************************************************************************)
(* What the claims speak of.                                               *)
(***************************************************************************)
\* The records a reader of the log gets.
Records(f) == readLog(f).entries
Stored(f, taskId) == Records(f)[FindIndex(Records(f), taskId)]
IsStored(f, taskId) == FindIndex(Records(f), taskId) # 0
Range(xs) == {xs[i] : i \in 1..Len(xs)}
Finished(p, op) == pc[p] = "done" /\ arg[p].op = op
Quiescent == \A p \in Procs : pc[p] \in {"idle", "done"}

\* t is s without its leading and trailing spaces.
IsTrimOf(t, s) ==
  /\ \E i \in 0..Len(s) :
       /\ i + Len(t) <= Len(s)
       /\ t = SubSeq(s, i + 1, i + Len(t))
       /\ \A k \in (1..i) \cup ((i + Len(t) + 1)..Len(s)) : s[k] = " "
  /\ t # <<>> => t[1] # " " /\ t[Len(t)] # " "

\* r lists each value of xs once, in the order of its first place in xs.
FirstPlace(xs, v) == CHOOSE i \in 1..Len(xs) : xs[i] = v /\ \A j \in 1..(i - 1) : xs[j] # v
IsOrderedUnion(r, xs) ==
  /\ Range(r) = Range(xs)
  /\ \A i, j \in 1..Len(r) : i < j => FirstPlace(xs, r[i]) < FirstPlace(xs, r[j])

\* The array an updates object carries under k, none being no elements.
Given(updates, k) == IF Has(updates, k) THEN updates[k] ELSE <<>>

(***************************************************************************)
(* C1.  Round trip: startTask followed by getTask(id) returns the record   *)
(* with task_id the returned id, description the trimmed input, a          *)
(* start_ts, end_ts null, duration_min null, success false, failure_reason *)
(* null, tools_used [], files_modified [], outcome_quality 'incomplete',   *)
(* metadata the supplied object or {} and schema_version '1.0'.            *)
(***************************************************************************)
StartThenGet(p) ==
  /\ Finished(p, "getTask")
  /\ ret[p].ok
  /\ last[p].op = "startTask"
  /\ arg[p].taskId = last[p].entry.task_id

C1_RoundTrip ==
  \A p \in Procs :
    StartThenGet(p) =>
      LET got == ret[p].value
          given == last[p].arg
      IN /\ got # Null
         /\ got.task_id = arg[p].taskId
         /\ got.task_id \in returned
         /\ IsTrimOf(got.description, given.description.s)
         /\ got.start_ts.t = "string" /\ got.start_ts.ms \in 0..now
         /\ got.end_ts = Null
         /\ got.duration_min = Null
         /\ got.success = FALSE
         /\ got.failure_reason = Null
         /\ got.tools_used = <<>>
         /\ got.files_modified = <<>>
         /\ got.outcome_quality = "incomplete"
         /\ got.metadata = IF Has(given.options, "metadata")
                           THEN given.options.metadata ELSE EmptyObj
         /\ got.schema_version = "1.0"
         /\ DOMAIN got = {"task_id", "description", "start_ts", "end_ts",
                          "duration_min", "success", "failure_reason",
                          "tools_used", "files_modified", "outcome_quality",
                          "metadata", "schema_version"}

\* A description with spaces around it and a metadata object went through.
C1_Witness ==
  \E p \in Procs :
    /\ StartThenGet(p)
    /\ Len(ret[p].value.description) \in 1..(Len(last[p].arg.description.s) - 1)
    /\ ret[p].value.metadata # EmptyObj

C3_InterleavedCreates ==
  /\ \A i \in 1..Len(NonEmptyLines(file)) : Parses(NonEmptyLines(file)[i])
  /\ Quiescent =>
       /\ Len(Records(file)) = Cardinality(returned)
       /\ \A id \in returned :
            Cardinality({i \in 1..Len(Records(file)) : Records(file)[i].task_id = id}) = 1

\* Every startTask has completed, and one that drew its id later appended
\* earlier.
C3_Witness ==
  /\ Quiescent
  /\ Cardinality(returned) = CreateArgs.maxTasks
  /\ Records(file)[1].task_id = randomUUID(2)

(***************************************************************************)
(* C4.  In every reachable state every persisted record has                *)
(* outcome_quality in {complete, incomplete, partial, abandoned}.          *)
(***************************************************************************)
C4_QualityEnumerated ==
  \A i \in 1..Len(Records(file)) :
    Records(file)[i].outcome_quality \in {"complete", "incomplete", "partial", "abandoned"}

\* An endTask with a value outside the four was refused on a log that
\* holds a record finalized with a custom quality.
C4_Witness ==
  /\ \E p \in Procs :
       /\ Finished(p, "endTask")
       /\ ret[p] = Throws("Invalid outcome_quality")
  /\ \E i \in 1..Len(Records(file)) :
       Records(file)[i].outcome_quality \in {"partial", "abandoned"}

(***************************************************************************)
(* C5.  endTask called with any supplied outcome_quality that is not one   *)
(* of the four values fails with an error and leaves the persisted record  *)
(* unchanged in every field.                                               *)
(***************************************************************************)
C5_EnumEnforced ==
  \A p \in Procs :
    (/\ Finished(p, "endTask")
     /\ Has(arg[p].outcome, "outcome_quality")
     /\ arg[p].outcome.outcome_quality \notin validQualities
     /\ before[p] # NoEntry)
    => /\ ~ret[p].ok
       /\ Stored(file, arg[p].taskId) = before[p]

(***************************************************************************)
(* C6.  updateTask and endTask called with an id that no record in the log *)
(* has (the log file may be absent) fail with 'Task not found' and leave   *)
(* the log unchanged.  An id is a non-empty string.                        *)
(***************************************************************************)
UnknownId(p) ==
  /\ arg'[p].op \in {"updateTask", "endTask"}
  /\ TaskIdValid(arg'[p].taskId)
  /\ \A i \in 1..Len(Records(file)) : Records(file)[i].task_id # arg'[p].taskId

UpdateThenUpdate(p) ==
  /\ Finished(p, "updateTask")
  /\ ret[p].ok
  /\ last[p].op = "updateTask"
  /\ last[p].arg.taskId = arg[p].taskId

UnionOf(p, k) ==
  LET T == last[p].before[k]
      A == Given(last[p].arg.updates, k)
      B == Given(arg[p].updates, k)
      R == Stored(file, arg[p].taskId)[k]
  IN /\ SubSeq(R, 1, Len(T)) = T
     /\ IsOrderedUnion(R, T \o A \o B)
     /\ Cardinality(Range(R)) = Len(R)

C7_UnionSemantics ==
  \A p \in Procs :
    UpdateThenUpdate(p) => UnionOf(p, "tools_used") /\ UnionOf(p, "files_modified")

\* The record had a tool before the two calls, the calls' arrays overlap
\* with it and with each other, and the second call brought a new tool.
C7_Witness ==
  \E p \in Procs :
    /\ UpdateThenUpdate(p)
    /\ last[p].before.tools_used # <<>>
    /\ Range(Given(last[p].arg.updates, "tools_used")) \cap Range(last[p].before.tools_used) # {}
    /\ Range(Given(arg[p].updates, "tools_used")) \cap Range(before[p].tools_used) # {}
    /\ Len(Stored(file, arg[p].taskId).tools_used) > Len(before[p].tools_used)

(***************************************************************************)
(* C8.  Arrays only grow: in a sequential sequence of calls, each record's *)
(* tools_used and files_modified after a step hold every element they held *)
(* before it.                                                              *)
(***************************************************************************)
C8_ArraysOnlyGrow ==
  [][\A i \in 1..Len(Records(file)) :
       \E j \in 1..Len(Records(file')) :
         /\ Records(file')[j].task_id = Records(file)[i].task_id
         /\ Range(Records(file)[i].tools_used) \subseteq Range(Records(file')[j].tools_used)
         /\ Range(Records(file)[i].files_modified)
              \subseteq Range(Records(file')[j].files_modified)]_vars

\* An update with empty arrays was applied to a record that has both a
\* tool and a file, and it still has them.
C8_Witness ==
  \E p \in Procs :
    /\ Finished(p, "updateTask")
    /\ ret[p].ok
    /\ Has(arg[p].updates, "tools_used") /\ arg[p].updates.tools_used = <<>>
    /\ before[p].tools_used # <<>>
    /\ Stored(file, arg[p].taskId).tools_used = before[p].tools_used

(***************************************************************************)
(* C9.  As claimed: once a record's end_ts is set, no later updateTask or  *)
(* endTask call changes it.                                                *)
(***************************************************************************)
C9_EndTsSetOnce ==
  [][\A i \in 1..Len(Records(file)) :
       Records(file)[i].end_ts # Null =>
         /\ i <= Len(Records(file'))
         /\ Records(file')[i].end_ts = Records(file)[i].end_ts]_vars

(***************************************************************************)
(* C9, amended.  In a sequential sequence of calls, once a record's end_ts *)
(* is set no updateTask call changes it and it is never null again; only   *)
(* an endTask call on that record that returns changes it, to the time of  *)
(* that call.                                                              *)
(***************************************************************************)
C9_EndTsOnlyByEndTask ==
  [][\A i \in 1..Len(Records(file)) :
       Records(file)[i].end_ts # Null =>
         /\ i <= Len(Records(file'))
         /\ Records(file')[i].task_id = Records(file)[i].task_id
         /\ \/ Records(file')[i].end_ts = Records(file)[i].end_ts
            \/ \E p \in Procs :
                 /\ pc[p] = "rewriteLog" /\ pc'[p] = "done" /\ ret'[p].ok
                 /\ arg[p].op = "endTask"
                 /\ arg[p].taskId = Records(file)[i].task_id
                 /\ Records(file')[i].end_ts = entry[p].end_ts
                 /\ Records(file')[i].end_ts # Null]_vars

\* An updateTask went through on a finalized record at a later time and
\* the record's end_ts is what it was.
C9_Witness ==
  \E p \in Procs :
    /\ Finished(p, "updateTask")
    /\ ret[p].ok
    /\ entry[p] # before[p]
    /\ before[p].end_ts # Null
    /\ before[p].end_ts # ISOString(now)
    /\ Stored(file, arg[p].taskId).end_ts = before[p].end_ts

(***************************************************************************)
(* C10.  After endTask succeeds for a caller that supplied no duration     *)
(* (the outcome has no duration_min, or the CLI end command is run without *)
(* --duration), the persisted record has end_ts set and duration_min equal *)
(* to end_ts - start_ts in minutes rounded to 2 decimals: a number, never  *)
(* null.                                                                   *)
(***************************************************************************)
NoDurationSupplied(p) ==
  IF arg[p].cli THEN ~Has(arg[p].argv, "--duration")
  ELSE ~Has(arg[p].outcome, "duration_min")

\* d is the number of minutes nearest to ms milliseconds among those with
\* two decimals, a tie going up.
IsElapsedRounded(d, ms) ==
  /\ d # Null
  /\ d.t = "number"
  /\ d.milli % 10 = 0
  /\ 60 * d.milli - 300 <= ms
  /\ ms < 60 * d.milli + 300

C10_ElapsedDuration ==
  \A p \in Procs :
    (Finished(p, "endTask") /\ ret[p].ok /\ NoDurationSupplied(p)) =>
      LET r == Stored(file, arg[p].taskId)
      IN /\ r.end_ts # Null
         /\ IsElapsedRounded(r.duration_min, r.end_ts.ms - r.start_ts.ms)

(***************************************************************************)
(* C11.  When endTask is given duration_min = d, the stored duration_min   *)
(* is d rounded to the nearest hundredth, a half going up as Math.round    *)
(* does; a d of at most two decimals is stored as it is, whatever time has *)
(* passed since start_ts.                                                  *)
(***************************************************************************)
\* The number d the caller of a finished endTask gave as the duration.
DurationSupplied(p) ==
  /\ Finished(p, "endTask")
  /\ ret[p].ok
  /\ Has(arg[p].outcome, "duration_min")
  /\ arg[p].outcome.duration_min # NaN

\* r is d at the nearest hundredth.
IsRounded2(r, d) ==
  /\ r # Null
  /\ r.t = "number"
  /\ r.milli % 10 = 0
  /\ r.milli - 5 <= d.milli
  /\ d.milli < r.milli + 5

C11_ExplicitDuration ==
  \A p \in Procs :
    DurationSupplied(p) =>
      LET d == arg[p].outcome.duration_min
          r == Stored(file, arg[p].taskId).duration_min
      IN /\ IsRounded2(r, d)
         /\ d.milli % 10 = 0 => r = d

\* A duration of three decimals was given after time had passed, and one
\* of two decimals too.
C11_Witness ==
  \E p \in Procs :
    /\ DurationSupplied(p)
    /\ arg[p].outcome.duration_min.milli % 10 # 0
    /\ LET r == Stored(file, arg[p].taskId)
       IN /\ r.end_ts.ms > r.start_ts.ms
          /\ r.duration_min = Num(45680)

(***************************************************************************)
(* C12.  After endTask(id, outcome) succeeds, success is outcome.success,  *)
(* or false if omitted; failure_reason is outcome.failure_reason, or null  *)
(* if omitted; outcome_quality is outcome.outcome_quality if supplied,     *)
(* otherwise 'complete' when success is true and 'incomplete' when false.  *)
(***************************************************************************)
C12_FinalizeDefaults ==
  \A p \in Procs :
    (Finished(p, "endTask") /\ ret[p].ok) =>
      LET o == arg[p].outcome
          r == Stored(file, arg[p].taskId)
      IN /\ r.success = IF Has(o, "success") THEN o.success ELSE FALSE
         /\ r.failure_reason =
              IF Has(o, "failure_reason") THEN Str(o.failure_reason) ELSE Null
         /\ r.outcome_quality =
              IF Has(o, "outcome_quality") THEN o.outcome_quality
              ELSE IF r.success THEN "complete" ELSE "incomplete"

\* The same with an empty string counted as omitted.
C12_EmptyIsOmitted ==
  \A p \in Procs :
    (Finished(p, "endTask") /\ ret[p].ok) =>
      LET o == arg[p].outcome
          given(k) == Has(o, k) /\ o[k] # ""
          r == Stored(file, arg[p].taskId)
      IN /\ r.success = IF Has(o, "success") THEN o.success ELSE FALSE
         /\ r.failure_reason =
              IF given("failure_reason") THEN Str(o.failure_reason) ELSE Null
         /\ r.outcome_quality =
              IF given("outcome_quality") THEN o.outcome_quality
              ELSE IF r.success THEN "complete" ELSE "incomplete"

(***************************************************************************)
(* What getTasks is said to return.                                        *)
(***************************************************************************)
\* A record passes the filters given: success equal to the one asked for,
\* started at or after the time asked for.
Matches(e, options) ==
  /\ Has(options, "success") => e.success = options.success
  /\ Has(options, "since") => e.start_ts.ms >= options.since

\* The records of the log passing the filters, in log order.
Matching(f, options) == SelectSeq(Records(f), LAMBDA e : Matches(e, options))

\* The last k elements of xs, all of them when there are fewer.
LastOf(xs, k) == IF k >= Len(xs) THEN xs ELSE SubSeq(xs, Len(xs) - k + 1, Len(xs))

(***************************************************************************)
(* C13.  With a limit N >= 1, getTasks returns the last min(N, m) of the   *)
(* m records matching the other filters, in creation order: the filters    *)
(* are applied before the limit.                                           *)
(***************************************************************************)
C13_LimitAndOrder ==
  \A p \in Procs :
    (/\ Finished(p, "getTasks")
     /\ ret[p].ok
     /\ Has(arg[p].options, "limit")
     /\ arg[p].options.limit >= 1)
    => ret[p].value = LastOf(Matching(file, arg[p].options), arg[p].options.limit)

\* A limit of 1 with a success filter the newest of three records fails:
\* the answer is an older record, which limiting first would have lost.
C13_Witness ==
  \E p \in Procs :
    /\ Finished(p, "getTasks")
    /\ ret[p].ok
    /\ Has(arg[p].options, "success")
    /\ Has(arg[p].options, "limit")
    /\ arg[p].options.limit = 1
    /\ Len(Records(file)) = 3
    /\ ~Matches(Records(file)[3], arg[p].options)
    /\ Len(Matching(file, arg[p].options)) = 2
    /\ ret[p].value = <<Matching(file, arg[p].options)[2]>>

(***************************************************************************)
(* C14.  For every integer limit N >= 0 passed to getTasks, the returned   *)
(* sequence has at most N records.                                         *)
(***************************************************************************)
C14_LimitIsMaximum ==
  \A p \in Procs :
    (/\ Finished(p, "getTasks")
     /\ ret[p].ok
     /\ Has(arg[p].options, "limit")
     /\ arg[p].options.limit >= 0)
    => Len(ret[p].value) <= arg[p].options.limit

(***************************************************************************)
(* C15.  getTasks({success: b, since: t}) returns exactly the records, in  *)
(* log order, with success = b (when b is given, false included) and start *)
(* time >= t (when t is given); with no filters it returns every record.   *)
(***************************************************************************)
C15_Filters ==
  \A p \in Procs :
    (/\ Finished(p, "getTasks")
     /\ ret[p].ok
     /\ ~Has(arg[p].options, "limit"))
    => /\ ret[p].value = Matching(file, arg[p].options)
       /\ arg[p].options = EmptyObj => ret[p].value = Records(file)

\* success: false and a since were given; some records pass and some do not.
C15_Witness ==
  \E p \in Procs :
    /\ Finished(p, "getTasks")
    /\ ret[p].ok
    /\ ~Has(arg[p].options, "limit")
    /\ Has(arg[p].options, "success")
    /\ ~arg[p].options.success
    /\ Has(arg[p].options, "since")
    /\ arg[p].options.since > 0
    /\ ret[p].value # <<>>
    /\ \E i \in 1..Len(Records(file)) :
         /\ ~Records(file)[i].success
         /\ Records(file)[i].start_ts.ms < arg[p].options.since
    /\ \E i \in 1..Len(Records(file)) : Records(file)[i].success

(***************************************************************************)
(* C16.  If any non-empty line of the log fails to parse, getTasks and     *)
(* getTask fail with an error and return no partial result, even when      *)
(* every other line is well-formed; updateTask and endTask on such a log   *)
(* fail too and leave the log unchanged.                                   *)
(***************************************************************************)
\* Some non-empty line of the file is not one JSON document.
Corrupted(f) ==
  /\ f.exists
  /\ \E i \in 1..Len(f.lines) :
       f.lines[i] # <<>> /\ (Len(f.lines[i]) # 1 \/ f.lines[i][1] = InvalidJson)

\* Caller p's call of one of ops comes to its end in this step.
Ends(p, ops) == pc[p] # "done" /\ pc'[p] = "done" /\ arg'[p].op \in ops

NoContent(f) == ~f.exists \/ (f.tail = <<>> /\ \A i \in 1..Len(f.lines) : f.lines[i] = <<>>)

\* Every line of the file is blank or one record, and none has the id.
NoRecordHas(f, taskId) ==
  /\ ~Corrupted(f)
  /\ f.tail = <<>>
  /\ \A i \in 1..Len(f.lines) : f.lines[i] # <<>> => f.lines[i][1].task_id # taskId

C17_TolerantReads ==
  [][\A p \in Procs :
       /\ (pc[p] # "idle" /\ arg[p].op \in {"getTask", "getTasks"}) => file' = file
       /\ (Ends(p, {"getTask"}) /\ (NoContent(file) \/ NoRecordHas(file, arg'[p].taskId)))
          => ret'[p] = Returns(Null)
       /\ (Ends(p, {"getTasks"}) /\ NoContent(file))
          => ret'[p] = Returns(<<>>)]_vars

\* getTasks has answered [] on a log of blank lines.
C17_Witness ==
  \E p \in Procs :
    /\ Finished(p, "getTasks")
    /\ ret[p] = Returns(<<>>)
    /\ file.exists
    /\ file.lines # <<>>
    /\ NoContent(file)

\* getTask has answered null for an id that is not among the log's records.
C17_WitnessUnknownId ==
  \E p \in Procs :
    /\ Finished(p, "getTask")
    /\ ret[p] = Returns(Null)
    /\ Records(file) # <<>>

(***************************************************************************)
(* C18.  startTask with an empty or non-string description fails with an   *)
(* error and appends nothing: the log, or its absence, is as before.       *)
(***************************************************************************)
\* The description is the empty string or no string at all.
EmptyOrNonString(description) ==
  description.type # "string" \/ description.s = <<>>

C18_CreateValidation ==
  [][\A p \in Procs :
       (Ends(p, {"startTask"}) /\ EmptyOrNonString(arg'[p].description))
       => /\ ~ret'[p].ok
          /\ file' = file]_vars

\* startTask has failed on a non-string description, the log holding a
\* record.
C18_Witness ==
  \E p \in Procs :
    /\ Finished(p, "startTask")
    /\ ~ret[p].ok
    /\ arg[p].description.type # "string"
    /\ Len(Records(file)) = 1

(***************************************************************************)
(* C19.  A successful startTask increases the number of records in the log *)
(* by exactly one, places the new record last, and leaves every record     *)
(* stored before unchanged and in the same order.                          *)
(***************************************************************************)
C19_AppendsOne ==
  [][\A p \in Procs :
       (Ends(p, {"startTask"}) /\ ret'[p].ok)
       => LET old == Records(file)
              new == Records(file')
          IN /\ Len(new) = Len(old) + 1
             /\ new[Len(new)].task_id = ret'[p].value
             /\ SubSeq(new, 1, Len(old)) = old]_vars

\* A second record has been appended after a first one that was finalized.
C19_Witness ==
  \E p \in Procs :
    /\ Finished(p, "startTask")
    /\ ret[p].ok
    /\ Len(Records(file)) = 2
    /\ Records(file)[1].end_ts # Null
    /\ Records(file)[2].task_id = ret[p].value

(***************************************************************************)
(* C20.  In every state reachable by sequential startTask, updateTask and  *)
(* endTask calls no two records of the log share a task_id, and no         *)
(* operation changes the task_id or start_ts of an existing record.        *)
(***************************************************************************)
\* No two records of the file have the same task_id.
UniqueIds(f) ==
  \A i, j \in 1..Len(Records(f)) :
    Records(f)[i].task_id = Records(f)[j].task_id => i = j

C20_Identity ==
  [][/\ UniqueIds(file')
     /\ \A i \in 1..Len(Records(file)) :
          /\ i <= Len(Records(file'))
          /\ Records(file')[i].task_id = Records(file)[i].task_id
          /\ Records(file')[i].start_ts = Records(file)[i].start_ts]_vars

\* Two records started at different times, one updated and one finalized
\* later than it started.
C20_Witness ==
  /\ Len(Records(file)) = 2
  /\ Records(file)[1].start_ts # Records(file)[2].start_ts
  /\ \E i, j \in 1..2 :
       /\ Records(file)[i].tools_used # <<>>
       /\ Records(file)[j].end_ts # Null
       /\ Records(file)[j].end_ts # Records(file)[j].start_ts

(***************************************************************************)
(* C21.  After updateTask(id, {metadata: M}) the record's metadata maps    *)
(* each key of M to M's value and every other key it had to the value it   *)
(* had; nested values are replaced whole, never merged.                    *)
(***************************************************************************)
MetadataUpdated(p) ==
  /\ Finished(p, "updateTask")
  /\ ret[p].ok
  /\ Has(arg[p].updates, "metadata")

C21_MetadataShallowMerge ==
  \A p \in Procs :
    MetadataUpdated(p) =>
      LET M == arg[p].updates.metadata
          old == before[p].metadata
          new == Stored(file, arg[p].taskId).metadata
      IN /\ DOMAIN new = DOMAIN old \cup DOMAIN M
         /\ \A k \in DOMAIN M : new[k] = M[k]
         /\ \A k \in DOMAIN old \ DOMAIN M : new[k] = old[k]

\* A nested object {x, y} under n was replaced by {x} alone, a key M does
\* not have being kept.
C21_Witness ==
  \E p \in Procs :
    /\ MetadataUpdated(p)
    /\ DOMAIN before[p].metadata = {"a", "n"}
    /\ DOMAIN arg[p].updates.metadata = {"n"}
    /\ DOMAIN before[p].metadata.n = {"x", "y"}
    /\ Stored(file, arg[p].taskId).metadata =
         [a |-> Num(1000), n |-> [x |-> Num(9000)]]

(***************************************************************************)
(* C22.  failure_reason is null whenever the task succeeded: in every      *)
(* state reachable through the tracker API, every persisted record with    *)
(* success = true has failure_reason = null.                               *)
(***************************************************************************)
C22_NoReasonOnSuccess ==
  \A i \in 1..Len(Records(file)) :
    Records(file)[i].success = TRUE => Records(file)[i].failure_reason = Null

(***************************************************************************)
(* What the claims on the memory oracle speak of.                          *)
(***************************************************************************)
\* A search has come to its end / has returned its results.
Searched == search.pc = "done" /\ search.op = "searchContext"
Found == Searched /\ search.ret.ok

\* The query is the empty string, no string, or whitespace only.
BlankQuery(query) ==
  \/ query.type # "string"
  \/ \A i \in 1..Len(query.s) : CharAt(query.s, i) \in Whitespace

(***************************************************************************)
(* C23.  searchContext fails with an error, without reading any source,    *)
(* for every query that is the empty string, not a string, or whitespace   *)
(* only.                                                                   *)
(***************************************************************************)
C23_EmptyQueryRejected ==
  (Searched /\ BlankQuery(search.query)) => (~search.ret.ok /\ search.reads = 0)

\* The same for the empty string and for values that are no strings.
C23_FalsyQueryRejected ==
  (Searched /\ (search.query.type # "string" \/ search.query.s = ""))
  => (~search.ret.ok /\ search.reads = 0)

(***************************************************************************)
(* What a search is said to return.                                        *)
(***************************************************************************)
\* The lines of a source of the workspace.
LinesOf(name) == SplitLines(workspace[name])

\* The score of a line for a query: 10 for the lower-cased query found in
\* the lower-cased line, 2 for each keyword of the query found in it.
ScoreOf(line, query) ==
  LET l == toLowerCase(line)
      keywords == extractKeywords(query)
  IN (IF Includes(l, toLowerCase(query)) THEN 10 ELSE 0)
     + 2 * Cardinality({k \in DOMAIN keywords : Includes(l, keywords[k])})

\* The numbers of the lines of a source that score more than 0.
ScoringLines(name, query) ==
  {n \in 1..Len(LinesOf(name)) : ScoreOf(LinesOf(name)[n], query) > 0}

\* The m least numbers of S, all of S when it has fewer.
FirstOf(S, m) == {n \in S : Cardinality({k \in S : k < n}) < m}

\* The matches the i-th file listed has added to the results.
RECURSIVE SumTo(_, _)
SumTo(xs, i) == IF i = 0 THEN 0 ELSE xs[i] + SumTo(xs, i - 1)
Span(i) ==
  SubSeq(search.results.matches, SumTo(search.spans, i - 1) + 1,
         SumTo(search.spans, i))
LinesIn(ms) == {ms[j].line : j \in 1..Len(ms)}

(***************************************************************************)
(* C24.  For a positive maxResults m and a source whose lines scoring > 0  *)
(* are l1 < ... < lk, the matches returned for that source are exactly the *)
(* lines l1 ... l_min(m,k): the first m scoring lines, not the m highest   *)
(* scoring; a source with at least m scoring lines gives exactly m.        *)
(***************************************************************************)
C24_PerSourceCap ==
  (Found /\ Has(search.options, "maxResults") /\ search.options.maxResults >= 1)
  => \A i \in 1..Len(search.files) :
       Has(workspace, search.files[i]) =>
         LET m == search.options.maxResults
             scoring == ScoringLines(search.files[i], search.query.s)
         IN /\ LinesIn(Span(i)) = FirstOf(scoring, m)
            /\ Len(Span(i)) = Cardinality(FirstOf(scoring, m))
            /\ \A j \in 1..Len(Span(i)) : Span(i)[j].file = search.files[i]
            /\ Cardinality(scoring) >= m => Len(Span(i)) = m

\* With maxResults 2 a source has given its first two scoring lines, of
\* score 2, and not a later line of score 16.
C24_Witness ==
  /\ Found
  /\ Has(search.options, "maxResults")
  /\ search.options.maxResults = 2
  /\ \E i \in 1..Len(search.files) :
       /\ Has(workspace, search.files[i])
       /\ LinesIn(Span(i)) = {1, 2}
       /\ \E n \in ScoringLines(search.files[i], search.query.s) :
            /\ n > 2
            /\ ScoreOf(LinesOf(search.files[i])[n], search.query.s) = 16
       /\ \A j \in 1..2 : Span(i)[j].score = 2

(***************************************************************************)
(* C25.  The score of a line is 10 if the lower-cased line contains the    *)
(* lower-cased full query, plus 2 for each keyword of extractKeywords      *)
(* (query) the lower-cased line contains; a line becomes a match exactly   *)
(* when its score is > 0 (the scan of its source not having stopped at     *)
(* maxResults), and a line containing the full query has score >= 10.      *)
(***************************************************************************)
C25_Scoring ==
  Found =>
    /\ \A j \in 1..Len(search.results.matches) :
         LET match == search.results.matches[j]
             line == LinesOf(match.file)[match.line]
         IN /\ match.score = ScoreOf(line, search.query.s)
            /\ match.score > 0
            /\ Includes(toLowerCase(line), toLowerCase(search.query.s))
               => match.score >= 10
    /\ \A i \in 1..Len(search.files) :
         (Has(workspace, search.files[i]) /\ Len(Span(i)) < search.maxResults)
         => LinesIn(Span(i)) = ScoringLines(search.files[i], search.query.s)

\* A line written in other case than the query has scored 16: the phrase
\* and three keywords; another line has scored 2, and a line none.
C25_Witness ==
  /\ Found
  /\ \E j, k \in 1..Len(search.results.matches) :
       LET match == search.results.matches[j]
           line == LinesOf(match.file)[match.line]
       IN /\ match.score = 16
          /\ ~Includes(line, search.query.s)
          /\ search.results.matches[k].score = 2
          /\ \E n \in 1..Len(LinesOf(match.file)) :
               /\ LinesOf(match.file)[n] # ""
               /\ n \notin ScoringLines(match.file, search.query.s)

(***************************************************************************)
(* C26.  In the matches of a search all matches of a source listed earlier *)
(* precede all matches of a source listed later, and within one source's   *)
(* span the scores are non-increasing.                                     *)
(***************************************************************************)
\* The first place of a name in the files listed.
PlaceOf(name) ==
  CHOOSE i \in 1..Len(search.files) :
    search.files[i] = name /\ \A j \in 1..(i - 1) : search.files[j] # name

C26_ResultOrdering ==
  Found =>
    /\ \A a, b \in 1..Len(search.results.matches) :
         a < b => PlaceOf(search.results.matches[a].file)
                  <= PlaceOf(search.results.matches[b].file)
    /\ \A i \in 1..Len(search.files) :
         /\ \A j \in 1..Len(Span(i)) : Span(i)[j].file = search.files[i]
         /\ \A a, b \in 1..Len(Span(i)) :
              a < b => Span(i)[a].score >= Span(i)[b].score

\* Two sources have matches; in one a later line of higher score comes
\* before earlier lines of lower score.
C26_Witness ==
  /\ Found
  /\ Cardinality({search.results.matches[j].file :
                    j \in 1..Len(search.results.matches)}) = 2
  /\ \E i \in 1..Len(search.files) :
       \E a, b \in 1..Len(Span(i)) :
         /\ a < b
         /\ Span(i)[a].line > Span(i)[b].line
         /\ Span(i)[a].score > Span(i)[b].score

(***************************************************************************)
(* C27.  For any ordered list of source names the result of searchContext  *)
(* has summary.total_matches equal to the length of matches and            *)
(* summary.files_searched equal to the number of distinct sources that     *)
(* have at least one match in matches.                                     *)
(***************************************************************************)
C27_SummaryCounts ==
  Found =>
    /\ search.ret.value.summary.total_matches = Len(search.ret.value.matches)
    /\ search.ret.value.summary.files_searched =
         Cardinality({search.ret.value.matches[j].file :
                        j \in 1..Len(search.ret.value.matches)})

\* The same, each place in the list counted as a source of its own.
C27_CountsPerListing ==
  Found =>
    /\ search.ret.value.summary.total_matches = Len(search.ret.value.matches)
    /\ search.ret.value.summary.files_searched =
         Cardinality({i \in 1..Len(search.files) : Span(i) # <<>>})

(***************************************************************************)
(* C28.  For every match at 1-based line n of a source with L lines and    *)
(* every supplied contextLines value c >= 0, the match's context is the    *)
(* source lines max(1, n - c) through min(L, n + c) joined by newlines and *)
(* trimmed, and its reported line is n.                                    *)
(***************************************************************************)
\* The match is the one of the line it reports, its context the lines c
\* about it.
HasWindow(match, c) ==
  LET lines == LinesOf(match.file)
      n == match.line
      from == IF n - c < 1 THEN 1 ELSE n - c
      to == IF n + c > Len(lines) THEN Len(lines) ELSE n + c
  IN /\ n \in 1..Len(lines)
     /\ match.match_line = StrTrim(lines[n])
     /\ match.context = StrTrim(Join(SubSeq(lines, from, to)))

C28_ContextWindow ==
  (Found /\ Has(search.options, "contextLines") /\ search.options.contextLines >= 0)
  => \A j \in 1..Len(search.results.matches) :
       HasWindow(search.results.matches[j], search.options.contextLines)

\* The same for the values c >= 1.
C28_PositiveContext ==
  (Found /\ Has(search.options, "contextLines") /\ search.options.contextLines >= 1)
  => \A j \in 1..Len(search.results.matches) :
       HasWindow(search.results.matches[j], search.options.contextLines)

(***************************************************************************)
(* C29.  extractKeywords(text) returns, in order of occurrence, exactly    *)
(* the whitespace-separated tokens of the lower-cased text, its            *)
(* punctuation other than hyphens taken out, that are longer than 2        *)
(* characters and not stop words; every token returned is lower-case, of   *)
(* length >= 3, and no stop word.                                          *)
(***************************************************************************)
\* Character i of the text lower-cased, a blank where it is punctuation.
Normal(text, i) ==
  LET c == LowerChar(CharAt(text, i))
  IN IF IndexOf(WordChars, c) # 0 \/ c \in Whitespace \/ c = "-" THEN c ELSE " "

\* The tokens: the longest stretches <<a, b>> of the text without a blank.
Tokens(text) ==
  {t \in (1..Len(text)) \X (1..Len(text)) :
     /\ t[1] <= t[2]
     /\ \A i \in t[1]..t[2] : Normal(text, i) \notin Whitespace
     /\ t[1] > 1 => Normal(text, t[1] - 1) \in Whitespace
     /\ t[2] < Len(text) => Normal(text, t[2] + 1) \in Whitespace}

\* word is the token t of the text.
IsToken(word, text, t) ==
  /\ Len(word) = t[2] - t[1] + 1
  /\ \A i \in 1..Len(word) : CharAt(word, i) = Normal(text, t[1] + i - 1)

Extracted == search.pc = "done" /\ search.op = "extractKeywords"

Holding(words) ==
  {j \in 1..Len(search.ret.value.matches) :
     LET match == search.ret.value.matches[j]
         text == toLowerCase(match.match_line \o " " \o match.context)
     IN \E w \in words : Includes(text, w)}
PriorWords == {"build", "implement", "create"}
FailureWords == {"fail", "error", "bug", "broke", "issue", "problem"}
SuccessWords == {"complete", "success", "ship", "@", "done"}

C30_PatternCounts ==
  Found =>
    LET summary == search.ret.value.summary
    IN /\ summary.prior_attempts = Cardinality(Holding(PriorWords))
       /\ summary.failures = Cardinality(Holding(FailureWords))
       /\ summary.successes = Cardinality(Holding(SuccessWords))
       /\ summary.prior_attempts <= summary.total_matches
       /\ summary.failures <= summary.total_matches
       /\ summary.successes <= summary.total_matches

\* One match has added to all three counters, another to none.
C30_Witness ==
  /\ Found
  /\ Holding(PriorWords) \cap Holding(FailureWords) \cap Holding(SuccessWords) # {}
  /\ \E j \in 1..Len(search.ret.value.matches) :
       j \notin Holding(PriorWords) \cup Holding(FailureWords) \cup Holding(SuccessWords)

(***************************************************************************)
(* C31.  A source file that does not exist adds no match and does not end  *)
(* the search: the search returns, and its matches and summary are those   *)
(* of the same search over the list with the missing sources removed.      *)
(***************************************************************************)
\* The files listed that exist, in the order listed.
Existing(files) == SelectSeq(files, LAMBDA name : Has(workspace, name))

\* The matches of the files listed, one file after the other, each of them
\* read.
MatchesOf(files, i) ==
  IF i > Len(files) THEN <<>>
  ELSE searchFile(workspace[files[i]], search.query.s,
                  [maxResults |-> search.maxResults,
                   contextLines |-> search.contextLines,
                   fileName |-> files[i]])

RECURSIVE AllMatches(_, _)
AllMatches(files, i) ==
  IF i > Len(files) THEN <<>>
  ELSE MatchesOf(files, i) \o AllMatches(files, i + 1)

\* A file listed is missing.
SomeMissing ==
  \E i \in 1..Len(search.files) : ~Has(workspace, search.files[i])

C31_MissingSourcesSilent ==
  (Searched /\ QueryValid(search.query)) =>
    /\ search.ret.ok
    /\ LET files == Existing(search.files)
           matches == AllMatches(files, 1)
       IN /\ search.ret.value.matches = matches
          /\ search.ret.value.summary =
               analyzePatterns(
                 [matches |-> matches,
                  summary |->
                    [total_matches |-> Len(matches),
                     files_searched |->
                       Cardinality({i \in 1..Len(files) :
                                      MatchesOf(files, i) # <<>>}),
                     prior_attempts |-> 0, failures |-> 0,
                     successes |-> 0]]).summary

\* A search over a missing file and a file with matches has returned; and a
\* search of which every file is missing has returned.
C31_Witness ==
  /\ Found
  /\ SomeMissing
  /\ search.ret.value.matches # <<>>

C31_WitnessAllMissing ==
  /\ Found
  /\ search.files # <<>>
  /\ Existing(search.files) = <<>>

(***************************************************************************)
(* What the text of the results is said to hold.                           *)
(***************************************************************************)
\* The results have been formatted; the lines of the text.
Formatted == search.pc = "formatted"
\* The lines of a text: what stands before its first newline, and the lines
\* of what stands after it.
Newlines(text) == {i \in 1..Len(text) : CharAt(text, i) = "\n"}
RECURSIVE TextLines(_)
TextLines(text) ==
  LET nl == Newlines(text)
  IN IF nl = {} THEN <<text>>
     ELSE LET i == CHOOSE i \in nl : \A j \in nl : i <= j
          IN <<SubSeq(text, 1, i - 1)>>
             \o TextLines(SubSeq(text, i + 1, Len(text)))
OutputLines == TextLines(search.output)
StartsWith(text, prefix) ==
  Len(text) >= Len(prefix) /\ SubSeq(text, 1, Len(prefix)) = prefix

\* Line j is the content of a code fence.
InFence(lines, j) ==
  /\ lines[j] # Fence
  /\ Cardinality({k \in 1..(j - 1) : lines[k] = Fence}) % 2 = 1

\* Line j is the line given, outside any code fence.
HasLine(lines, line) ==
  \E j \in 1..Len(lines) : lines[j] = line /\ ~InFence(lines, j)

\* The places of the headings of match blocks, in order.
BlockHeadings(lines) ==
  SelectSeq([j \in 1..Len(lines) |-> j],
            LAMBDA j : StartsWith(lines[j], "### ") /\ ~InFence(lines, j))

\* The heading of the block of a match.
HeadingOf(match) ==
  "### " \o match.file \o ":" \o ToString(match.line)
  \o " (score: " \o ToString(match.score) \o ")"

(***************************************************************************)
(* C32.  formatResults on results without matches gives the header (query, *)
(* timestamp), the summary counts and the notice that no relevant context  *)
(* was found, and neither a Relevant Context section nor a match block; on *)
(* results with k >= 1 matches it gives exactly k match blocks, in the     *)
(* order of matches, and no notice.                                        *)
(***************************************************************************)
C32_NoMatchRendering ==
  Formatted =>
    LET results == search.ret.value
        lines == OutputLines
        blocks == BlockHeadings(lines)
    IN /\ lines[1] = "# Memory Oracle Results"
       /\ HasLine(lines, "**Query:** " \o results.query)
       /\ HasLine(lines, "**Timestamp:** " \o ISOText(results.timestamp))
       /\ HasLine(lines, "- **Total Matches:** "
                           \o ToString(results.summary.total_matches))
       /\ HasLine(lines, "- **Files Searched:** "
                           \o ToString(results.summary.files_searched))
       /\ HasLine(lines, "- **Prior Attempts:** "
                           \o ToString(results.summary.prior_attempts))
       /\ HasLine(lines, "- **Failures:** " \o ToString(results.summary.failures))
       /\ HasLine(lines, "- **Successes:** " \o ToString(results.summary.successes))
       /\ IF results.matches = <<>>
          THEN /\ lines[Len(lines)] = NoContextNotice
               /\ Len(lines) = 13
               /\ ~HasLine(lines, "## Relevant Context")
               /\ blocks = <<>>
          ELSE /\ ~HasLine(lines, NoContextNotice)
               /\ HasLine(lines, "## Relevant Context")
               /\ Len(blocks) = Len(results.matches)
               /\ \A i \in 1..Len(blocks) :
                    lines[blocks[i]] = HeadingOf(results.matches[i])

\* Results without matches have been formatted.
C32_Witness ==
  /\ Formatted
  /\ search.ret.value.matches = <<>>
  /\ search.ret.value.query = "zzz"

\* Results of two matches or more have been formatted, the context of one
\* holding a line that reads as a heading.
C32_WitnessBlocks ==
  /\ Formatted
  /\ Len(search.ret.value.matches) >= 2
  /\ \E j \in 1..Len(OutputLines) :
       StartsWith(OutputLines[j], "### ") /\ InFence(OutputLines, j)

(***************************************************************************)
(* C33.  No record is ever lost: however the read and write steps of       *)
(* concurrent startTask, updateTask and endTask calls on one log are       *)
(* interleaved, once startTask has returned an id the log holds a record   *)
(* of that id in every later state.                                        *)
(***************************************************************************)
C33_NoRecordLost == \A id \in returned : IsStored(file, id)

\* A call has rewritten the log as it read it before a startTask appended:
\* the id startTask returned is no longer in the log.
C33_RecordErased ==
  \E p \in Procs :
    /\ Finished(p, "updateTask") \/ Finished(p, "endTask")
    /\ ret[p].ok
    /\ \E id \in returned : ~IsStored(file, id)

(***************************************************************************)
(* C34.  Finalization is durable: once the log holds a record with end_ts  *)
(* set, as it does when endTask on it has completed, the log holds that    *)
(* record with a non-null end_ts in every later state, whatever concurrent *)
(* call writes next.                                                       *)
(***************************************************************************)
C34_FinalizationDurable ==
  [][\A i \in 1..Len(Records(file)) :
       Records(file)[i].end_ts # Null =>
         /\ IsStored(file', Records(file)[i].task_id)
         /\ Stored(file', Records(file)[i].task_id).end_ts # Null]_vars

\* endTask on a record has completed, and an updateTask on the same record
\* that read the log before has rewritten it since: the record is open.
C34_Reopened ==
  \E p, q \in Procs :
    /\ Finished(q, "endTask") /\ ret[q].ok
    /\ Finished(p, "updateTask") /\ ret[p].ok
    /\ arg[p].taskId = arg[q].taskId
    /\ entry[q].end_ts # Null
    /\ before[p].end_ts = Null
    /\ IsStored(file, arg[q].taskId)
    /\ Stored(file, arg[q].taskId).end_ts = Null

(***************************************************************************)
(* What updateTask and endTask may change.                                 *)
(***************************************************************************)
UpdateFields == {"tools_used", "files_modified", "metadata"}
FinalizeFields ==
  {"end_ts", "duration_min", "success", "failure_reason", "outcome_quality"}
FieldsOf(op) == IF op = "updateTask" THEN UpdateFields ELSE FinalizeFields

\* Caller p's write lands in this step.
Rewrites(p) == pc[p] = "rewriteLog" /\ pc'[p] = "done"

(***************************************************************************)
(* C35.  In a sequence of calls updateTask changes only tools_used,        *)
(* files_modified and metadata of its record, and endTask only end_ts,     *)
(* duration_min, success, failure_reason and outcome_quality of its        *)
(* record; both leave every other record, the number of records and their  *)
(* order as they were; and updateTask goes through on every record the log *)
(* holds, open or finalized.                                               *)
(***************************************************************************)
C35_Frame ==
  [][\A p \in Procs :
       /\ Rewrites(p) =>
            LET old == Records(file)
                new == Records(file')
                i == FindIndex(old, arg[p].taskId)
            IN /\ arg[p].op \in {"updateTask", "endTask"}
               /\ i # 0
               /\ Len(new) = Len(old)
               /\ \A j \in 1..Len(old) : j # i => new[j] = old[j]
               /\ \A k \in (DOMAIN old[i] \cup DOMAIN new[i]) \ FieldsOf(arg[p].op) :
                    /\ k \in DOMAIN old[i] \cap DOMAIN new[i]
                    /\ new[i][k] = old[i][k]
       /\ (pc[p] = "readLog" /\ arg[p].op = "updateTask"
           /\ IsStored(file, arg[p].taskId))
          => pc'[p] \in {"readLog", "rewriteLog"}]_vars

\* An updateTask and an endTask have each changed the second of two
\* records, the updateTask after the record was finalized.
C35_Witness ==
  \E p \in Procs :
    /\ Finished(p, "updateTask")
    /\ ret[p].ok
    /\ entry[p] # before[p]
    /\ before[p].end_ts # Null
    /\ Len(Records(file)) = 2
    /\ FindIndex(Records(file), arg[p].taskId) = 2

C35_WitnessEnd ==
  \E p \in Procs :
    /\ Finished(p, "endTask")
    /\ ret[p].ok
    /\ before[p].tools_used # <<>>
    /\ Len(Records(file)) = 2

(***************************************************************************)
(* C36.  In every state reached by a sequence of tracker calls, a record   *)
(* with end_ts null has success false, failure_reason null, duration_min   *)
(* null and outcome_quality 'incomplete'; so a record with success true or *)
(* an outcome_quality other than 'incomplete' has end_ts set.              *)
(***************************************************************************)
C36_OpenRecord ==
  \A i \in 1..Len(Records(file)) :
    LET r == Records(file)[i]
    IN /\ r.end_ts = Null =>
            /\ r.success = FALSE
            /\ r.failure_reason = Null
            /\ r.duration_min = Null
            /\ r.outcome_quality = "incomplete"
       /\ (r.success = TRUE \/ r.outcome_quality # "incomplete") => r.end_ts # Null

\* An endTask with success and a quality that is not valid has thrown: the
\* record it mutated in memory is open in the log, beside a finalized one.
C36_Witness ==
  \E p \in Procs :
    /\ Finished(p, "endTask")
    /\ ~ret[p].ok
    /\ entry[p] # NoEntry
    /\ entry[p].success = TRUE
    /\ Stored(file, arg[p].taskId).end_ts = Null
    /\ \E i \in 1..Len(Records(file)) :
         Records(file)[i].end_ts # Null /\ Records(file)[i].success = TRUE

(***************************************************************************)
(* C37.  A search does not depend on whitespace around the query: the      *)
(* search of a query returns the normalized query and the matches, scores  *)
(* included, that the search of the same query without its leading and     *)
(* trailing whitespace returns.                                            *)
(***************************************************************************)
\* The matches of a search of the files for the query, one file after the
\* other.
RECURSIVE MatchesFor(_, _, _)
MatchesFor(query, files, i) ==
  IF i > Len(files) THEN <<>>
  ELSE searchFile(workspace[files[i]], query,
                  [maxResults |-> search.maxResults,
                   contextLines |-> search.contextLines,
                   fileName |-> files[i]])
       \o MatchesFor(query, files, i + 1)

C37_WhitespaceInsensitive ==
  (Found /\ StrTrim(search.query.s) # "") =>
    /\ search.ret.value.query = StrTrim(search.query.s)
    /\ search.ret.value.matches =
         MatchesFor(StrTrim(search.query.s), Existing(search.files), 1)

\* A query with whitespace around it has matched lines that hold the query
\* without the whitespace, and none of them scores the phrase.
C37_PhraseMissed ==
  /\ Found
  /\ search.query.s # StrTrim(search.query.s)
  /\ search.ret.value.matches # <<>>
  /\ \A j \in 1..Len(search.ret.value.matches) :
       /\ Includes(toLowerCase(search.ret.value.matches[j].match_line),
                   toLowerCase(StrTrim(search.query.s)))
       /\ search.ret.value.matches[j].score < 10

(***************************************************************************)
(* C38.  The keywords are a set: extractKeywords returns each keyword at   *)
(* most once, so the keyword part of the score of a line is 2 times the    *)
(* number of distinct keywords of the query that the line contains, and a  *)
(* word repeated in the query changes no score.                            *)
(***************************************************************************)
\* The score of a line for a query, each distinct keyword counted once.
DistinctScoreOf(line, query) ==
  LET l == toLowerCase(line)
  IN (IF Includes(l, toLowerCase(query)) THEN 10 ELSE 0)
     + 2 * Cardinality({k \in Range(extractKeywords(query)) : Includes(l, k)})

C38_KeywordsAreSet ==
  /\ Extracted =>
       \A a, b \in 1..Len(search.ret.value) :
         a # b => search.ret.value[a] # search.ret.value[b]
  /\ Found =>
       \A j \in 1..Len(search.ret.value.matches) :
         LET match == search.ret.value.matches[j]
         IN match.score = DistinctScoreOf(LinesOf(match.file)[match.line],
                                          search.query.s)

\* A query of one word written twice has given a match the score of two
\* keywords and the phrase missed: 4, where the word once gives 2.
C38_RepeatedWordCounted ==
  /\ Found
  /\ extractKeywords(search.query.s) = <<"cache", "cache">>
  /\ \E j \in 1..Len(search.ret.value.matches) :
       /\ search.ret.value.matches[j].score = 4
       /\ DistinctScoreOf(LinesOf(search.ret.value.matches[j].file)
                            [search.ret.value.matches[j].line],
                          search.query.s) = 2

(***************************************************************************)
(* C39.  Every record startTask has stored has a description that is not   *)
(* empty: a description that is empty once trimmed, being whitespace only, *)
(* is rejected and not stored.                                             *)
(***************************************************************************)
C39_DescriptionNonEmpty ==
  \A i \in 1..Len(Records(file)) : Records(file)[i].description # <<>>

\* startTask has returned for a description of whitespace only, and the
\* record it stored has the empty description.
C39_BlankStored ==
  \E p \in Procs :
    /\ Finished(p, "startTask")
    /\ ret[p].ok
    /\ arg[p].description.s # <<>>
    /\ Trim(arg[p].description.s) = <<>>
    /\ Stored(file, ret[p].value).description = <<>>
====
